---- MODULE Spec2Model ----
(***************************************************************************)
(* Station import page (src/src/pages/Import.tsx): header normalisation,   *)
(* column mapping, cell coercion, row assembly and the import run          *)
(* (deactivate all stations, then upsert in batches with a per-record      *)
(* retry) against the remote stations table.                               *)
(*                                                                         *)
(* Text.  A JavaScript string is a sequence of characters, a character a   *)
(* one-token TLA+ string.  ASCII characters stand for themselves; the      *)
(* parser accepts ASCII only, so the other characters of the source are    *)
(* written by name: "cy_a" .. "cy_ya" and "CY_A" .. "CY_YA" are the        *)
(* Cyrillic lower and upper case letters, "numero" is U+2116, "checkmark"  *)
(* U+2713, "heavycheck" U+2714, "nbsp" U+00A0.                             *)
(*                                                                         *)
(* Values.  A JavaScript value (a cell, a field of a station) is a record  *)
(* of one shape, [t, s, m, e, b]: t is the type tag, s the characters of   *)
(* a string, m * 10^e a finite number, b a boolean.                        *)
(***************************************************************************)
EXTENDS Integers, Sequences, FiniteSets, TLC

\* ------------------------------------------------------------ bounds

\* Longest spreadsheet (data rows) an operator selects.
MaxRows == 3

\* The most rows of a spreadsheet imported while another import runs.
MaxConcurrentRows == 1

\* Longest cell text made of every combination of CellChars.
MaxCellLen == 3

\* Longest header made of every combination of HeaderChars.
MaxHeaderLen == 5

\* The most columns of a row, the station number column not counted.
MaxColumns == 2

\* The most FileReaders of the preview that have yet to load.
MaxReading == 2

\* ------------------------------------------------------------ characters

LatinUpper == <<"A", "B", "C", "D", "E", "F", "G", "H", "I", "J", "K", "L", "M",
                "N", "O", "P", "Q", "R", "S", "T", "U", "V", "W", "X", "Y", "Z">>
LatinLower == <<"a", "b", "c", "d", "e", "f", "g", "h", "i", "j", "k", "l", "m",
                "n", "o", "p", "q", "r", "s", "t", "u", "v", "w", "x", "y", "z">>
CyrillicUpper == <<"CY_A", "CY_B", "CY_V", "CY_G", "CY_D", "CY_E", "CY_YO", "CY_ZH", "CY_Z", "CY_I", "CY_J",
                   "CY_K", "CY_L", "CY_M", "CY_N", "CY_O", "CY_P", "CY_R", "CY_S", "CY_T", "CY_U", "CY_F",
                   "CY_H", "CY_C", "CY_CH", "CY_SH", "CY_SCH", "CY_HARD", "CY_Y", "CY_SOFT", "CY_EH", "CY_YU", "CY_YA">>
CyrillicLower == <<"cy_a", "cy_b", "cy_v", "cy_g", "cy_d", "cy_e", "cy_yo", "cy_zh", "cy_z", "cy_i", "cy_j",
                   "cy_k", "cy_l", "cy_m", "cy_n", "cy_o", "cy_p", "cy_r", "cy_s", "cy_t", "cy_u", "cy_f",
                   "cy_h", "cy_c", "cy_ch", "cy_sh", "cy_sch", "cy_hard", "cy_y", "cy_soft", "cy_eh", "cy_yu", "cy_ya">>
UpperCase == LatinUpper \o CyrillicUpper
LowerCase == LatinLower \o CyrillicLower

\* The characters \s and String.prototype.trim treat as white space.
WhiteSpace == {" ", "\t", "\n", "\r", "nbsp"}

Digits == <<"0", "1", "2", "3", "4", "5", "6", "7", "8", "9">>

IsDigit(c) == \E d \in DOMAIN Digits : Digits[d] = c

DigitVal(c) == (CHOOSE d \in DOMAIN Digits : Digits[d] = c) - 1

\* One character of String.prototype.toLowerCase.
LowerChar(c) ==
    IF \E u \in DOMAIN UpperCase : UpperCase[u] = c
    THEN LowerCase[CHOOSE u \in DOMAIN UpperCase : UpperCase[u] = c]
    ELSE c

toLowerCase(s) == [n \in DOMAIN s |-> LowerChar(s[n])]

RECURSIVE trimStart(_)
trimStart(s) ==
    IF s # <<>> /\ Head(s) \in WhiteSpace THEN trimStart(Tail(s)) ELSE s

RECURSIVE trimEnd(_)
trimEnd(s) ==
    IF s # <<>> /\ s[Len(s)] \in WhiteSpace
    THEN trimEnd(SubSeq(s, 1, Len(s) - 1))
    ELSE s

\* String.prototype.trim
trim(s) == trimEnd(trimStart(s))

\* s.replace(/\s+/g, ' '): every maximal run of white space becomes one space.
RECURSIVE collapseWhiteSpace(_)
collapseWhiteSpace(s) ==
    IF s = <<>> THEN <<>>
    ELSE IF Head(s) \in WhiteSpace
         THEN <<" ">> \o collapseWhiteSpace(trimStart(s))
         ELSE <<Head(s)>> \o collapseWhiteSpace(Tail(s))

\* s.replace(/from/g, to) for a one-character pattern.
replaceChar(s, from, to) == [n \in DOMAIN s |-> IF s[n] = from THEN to ELSE s[n]]

\* ------------------------------------------------------------ header normalisation

\* s.replace(/\s\s/g, ' '): white space collapsed two characters at a time.
RECURSIVE collapsePairs(_)
collapsePairs(s) ==
    IF s = <<>> THEN <<>>
    ELSE IF Len(s) >= 2 /\ s[1] \in WhiteSpace /\ s[2] \in WhiteSpace
         THEN <<" ">> \o collapsePairs(Tail(Tail(s)))
         ELSE <<Head(s)>> \o collapsePairs(Tail(s))

normalizeHeaderCollapsingPairs(header) == toLowerCase(collapsePairs(trim(header)))

normalizeHeader(header) == toLowerCase(collapseWhiteSpace(trim(header)))

\* ------------------------------------------------------------ column map

\* The own properties of COLUMN_MAP: <<normalized header, database field>>.
COLUMN_MAP == {
    <<<<"s", "t", "a", "t", "i", "o", "n", "_", "n", "o">>, "station_no">>,
    <<<<"s", "t", "a", "t", "i", "o", "n", " ", "n", "o">>, "station_no">>,
    <<<<"s", "t", "a", "t", "i", "o", "n", " ", "n", "u", "m", "b", "e", "r">>, "station_no">>,
    <<<<"numero", "cy_a", "cy_z", "cy_s">>, "station_no">>,
    <<<<"numero", " ", "cy_a", "cy_z", "cy_s">>, "station_no">>,
    <<<<"cy_n", "cy_o", "cy_m", "cy_e", "cy_r", " ", "cy_a", "cy_z", "cy_s">>, "station_no">>,
    <<<<"n", "p", "o">>, "npo">>,
    <<<<"cy_n", "cy_p", "cy_o">>, "npo">>,
    <<<<"a", "d", "d", "r", "e", "s", "s">>, "address">>,
    <<<<"cy_a", "cy_d", "cy_r", "cy_e", "cy_s">>, "address">>,
    <<<<"cy_a", "cy_d", "cy_r", "cy_e", "cy_s", " ", "cy_a", "cy_z", "cy_s">>, "address">>,
    <<<<"r", "e", "g", "i", "o", "n">>, "region">>,
    <<<<"cy_r", "cy_e", "cy_g", "cy_i", "cy_o", "cy_n">>, "region">>,
    <<<<"l", "o", "c", "a", "t", "i", "o", "n", "_", "t", "y", "p", "e">>, "location_type">>,
    <<<<"l", "o", "c", "a", "t", "i", "o", "n", " ", "t", "y", "p", "e">>, "location_type">>,
    <<<<"cy_r", "cy_a", "cy_s", "cy_p", "cy_o", "cy_l", "cy_o", "cy_zh", "cy_e", "cy_n", "cy_i", "cy_e", " ", "cy_a", "cy_z", "cy_s", ":", " ", "cy_g", "cy_o", "cy_r", "cy_o", "cy_d", "/", "cy_t", "cy_r", "cy_a", "cy_s", "cy_s", "cy_a", "/", "cy_p", "cy_r", "cy_o", "cy_ch", "cy_a", "cy_ya", " ", "cy_t", "cy_e", "cy_r", "cy_r", "cy_i", "cy_t", "cy_o", "cy_r", "cy_i", "cy_ya">>, "location_type">>,
    <<<<"cy_r", "cy_a", "cy_s", "cy_p", "cy_o", "cy_l", "cy_o", "cy_zh", "cy_e", "cy_n", "cy_i", "cy_e">>, "location_type">>,
    <<<<"cy_t", "cy_i", "cy_p", " ", "cy_r", "cy_a", "cy_s", "cy_p", "cy_o", "cy_l", "cy_o", "cy_zh", "cy_e", "cy_n", "cy_i", "cy_ya">>, "location_type">>,
    <<<<"s", "t", "a", "t", "i", "o", "n", "_", "p", "h", "o", "n", "e">>, "station_phone">>,
    <<<<"s", "t", "a", "t", "i", "o", "n", " ", "p", "h", "o", "n", "e">>, "station_phone">>,
    <<<<"p", "h", "o", "n", "e">>, "station_phone">>,
    <<<<"cy_n", "cy_o", "cy_m", "cy_e", "cy_r", " ", "cy_t", "cy_e", "cy_l", "cy_e", "cy_f", "cy_o", "cy_n", "cy_a", " ", "cy_a", "cy_z", "cy_s">>, "station_phone">>,
    <<<<"cy_t", "cy_e", "cy_l", "cy_e", "cy_f", "cy_o", "cy_n", " ", "cy_a", "cy_z", "cy_s">>, "station_phone">>,
    <<<<"s", "t", "a", "t", "i", "o", "n", "_", "e", "m", "a", "i", "l">>, "station_email">>,
    <<<<"s", "t", "a", "t", "i", "o", "n", " ", "e", "m", "a", "i", "l">>, "station_email">>,
    <<<<"e", "m", "a", "i", "l">>, "station_email">>,
    <<<<"cy_eh", "cy_l", "cy_e", "cy_k", "cy_t", "cy_r", "cy_o", "cy_n", "cy_n", "cy_y", "cy_j", " ", "cy_a", "cy_d", "cy_r", "cy_e", "cy_s", " ", "cy_a", "cy_z", "cy_s", "/", " ", "l", "o", "t", "u", "s">>, "station_email">>,
    <<<<"cy_eh", "cy_l", "cy_e", "cy_k", "cy_t", "cy_r", "cy_o", "cy_n", "cy_n", "cy_y", "cy_j", " ", "cy_a", "cy_d", "cy_r", "cy_e", "cy_s", " ", "cy_a", "cy_z", "cy_s">>, "station_email">>,
    <<<<"e", "m", "a", "i", "l", " ", "cy_a", "cy_z", "cy_s">>, "station_email">>,
    <<<<"m", "a", "n", "a", "g", "e", "r", "_", "n", "a", "m", "e">>, "manager_name">>,
    <<<<"m", "a", "n", "a", "g", "e", "r", " ", "n", "a", "m", "e">>, "manager_name">>,
    <<<<"m", "a", "n", "a", "g", "e", "r">>, "manager_name">>,
    <<<<"cy_m", "cy_e", "cy_n", "cy_e", "cy_d", "cy_zh", "cy_e", "cy_r", " ", "cy_a", "cy_z", "cy_s", " ", "cy_f", "cy_i", "cy_o">>, "manager_name">>,
    <<<<"cy_m", "cy_e", "cy_n", "cy_e", "cy_d", "cy_zh", "cy_e", "cy_r", " ", "cy_a", "cy_z", "cy_s">>, "manager_name">>,
    <<<<"cy_f", "cy_i", "cy_o", " ", "cy_m", "cy_e", "cy_n", "cy_e", "cy_d", "cy_zh", "cy_e", "cy_r", "cy_a">>, "manager_name">>,
    <<<<"m", "a", "n", "a", "g", "e", "r", "_", "p", "h", "o", "n", "e">>, "manager_phone">>,
    <<<<"m", "a", "n", "a", "g", "e", "r", " ", "p", "h", "o", "n", "e">>, "manager_phone">>,
    <<<<"cy_n", "cy_o", "cy_m", "cy_e", "cy_r", " ", "cy_t", "cy_e", "cy_l", "cy_e", "cy_f", "cy_o", "cy_n", "cy_a", " ", "cy_m", "cy_e", "cy_n", "cy_e", "cy_d", "cy_zh", "cy_e", "cy_r", "cy_a", " ", "cy_a", "cy_z", "cy_s">>, "manager_phone">>,
    <<<<"cy_t", "cy_e", "cy_l", "cy_e", "cy_f", "cy_o", "cy_n", " ", "cy_m", "cy_e", "cy_n", "cy_e", "cy_d", "cy_zh", "cy_e", "cy_r", "cy_a">>, "manager_phone">>,
    <<<<"t", "e", "r", "r", "i", "t", "o", "r", "y", "_", "m", "a", "n", "a", "g", "e", "r", "_", "n", "a", "m", "e">>, "territory_manager_name">>,
    <<<<"t", "e", "r", "r", "i", "t", "o", "r", "y", " ", "m", "a", "n", "a", "g", "e", "r", " ", "n", "a", "m", "e">>, "territory_manager_name">>,
    <<<<"t", "e", "r", "r", "i", "t", "o", "r", "y", " ", "m", "a", "n", "a", "g", "e", "r">>, "territory_manager_name">>,
    <<<<"cy_t", "cy_e", "cy_r", "cy_r", "cy_i", "cy_t", "cy_o", "cy_r", "cy_i", "cy_a", "cy_l", "cy_soft", "cy_n", "cy_y", "cy_j", " ", "cy_m", "cy_e", "cy_n", "cy_e", "cy_d", "cy_zh", "cy_e", "cy_r", " ", "cy_f", "cy_i", "cy_o">>, "territory_manager_name">>,
    <<<<"cy_t", "cy_e", "cy_r", "cy_r", "cy_i", "cy_t", "cy_o", "cy_r", "cy_i", "cy_a", "cy_l", "cy_soft", "cy_n", "cy_y", "cy_j", " ", "cy_m", "cy_e", "cy_n", "cy_e", "cy_d", "cy_zh", "cy_e", "cy_r">>, "territory_manager_name">>,
    <<<<"t", "e", "r", "r", "i", "t", "o", "r", "y", "_", "m", "a", "n", "a", "g", "e", "r", "_", "p", "h", "o", "n", "e">>, "territory_manager_phone">>,
    <<<<"t", "e", "r", "r", "i", "t", "o", "r", "y", " ", "m", "a", "n", "a", "g", "e", "r", " ", "p", "h", "o", "n", "e">>, "territory_manager_phone">>,
    <<<<"cy_t", "cy_e", "cy_l", "cy_e", "cy_f", "cy_o", "cy_n", " ", "cy_t", "cy_e", "cy_r", "cy_r", "cy_i", "cy_t", "cy_o", "cy_r", "cy_i", "cy_a", "cy_l", "cy_soft", "cy_n", "cy_o", "cy_g", "cy_o", " ", "cy_m", "cy_e", "cy_n", "cy_e", "cy_d", "cy_zh", "cy_e", "cy_r", "cy_a">>, "territory_manager_phone">>,
    <<<<"p", "r", "i", "c", "e", "_", "c", "a", "t", "e", "g", "o", "r", "y">>, "price_category">>,
    <<<<"p", "r", "i", "c", "e", " ", "c", "a", "t", "e", "g", "o", "r", "y">>, "price_category">>,
    <<<<"cy_c", "cy_e", "cy_n", "cy_o", "cy_v", "cy_a", "cy_ya", " ", "cy_k", "cy_a", "cy_t", "cy_e", "cy_g", "cy_o", "cy_r", "cy_i", "cy_ya", " ", "cy_b", "cy_g", "cy_n">>, "price_category">>,
    <<<<"cy_c", "cy_e", "cy_n", "cy_o", "cy_v", "cy_a", "cy_ya", " ", "cy_k", "cy_a", "cy_t", "cy_e", "cy_g", "cy_o", "cy_r", "cy_i", "cy_ya">>, "price_category">>,
    <<<<"m", "e", "n", "u">>, "menu">>,
    <<<<"cy_d", "cy_e", "cy_j", "cy_s", "cy_t", "cy_v", "cy_u", "cy_yu", "cy_sch", "cy_e", "cy_e", " ", "cy_m", "cy_e", "cy_n", "cy_yu", " ", "(", "p", "e", "t", "r", "o", "n", "i", "c", "s", ")">>, "menu">>,
    <<<<"cy_m", "cy_e", "cy_n", "cy_yu">>, "menu">>,
    <<<<"s", "a", "l", "e", "s", "_", "d", "a", "y", "_", "1">>, "sales_day_1">>,
    <<<<"s", "a", "l", "e", "s", " ", "d", "a", "y", " ", "1">>, "sales_day_1">>,
    <<<<"cy_r", "cy_e", "cy_a", "cy_l", "cy_i", "cy_z", "cy_a", "cy_c", "cy_i", "cy_ya", " ", "cy_v", " ", "cy_d", "cy_e", "cy_n", "cy_soft", " ", "1">>, "sales_day_1">>,
    <<<<"s", "a", "l", "e", "s", "_", "d", "a", "y", "_", "2">>, "sales_day_2">>,
    <<<<"s", "a", "l", "e", "s", " ", "d", "a", "y", " ", "2">>, "sales_day_2">>,
    <<<<"cy_r", "cy_e", "cy_a", "cy_l", "cy_i", "cy_z", "cy_a", "cy_c", "cy_i", "cy_ya", " ", "cy_v", " ", "cy_d", "cy_e", "cy_n", "cy_soft", " ", "2">>, "sales_day_2">>,
    <<<<"s", "a", "l", "e", "s", "_", "d", "a", "y", "_", "3">>, "sales_day_3">>,
    <<<<"s", "a", "l", "e", "s", " ", "d", "a", "y", " ", "3">>, "sales_day_3">>,
    <<<<"cy_r", "cy_e", "cy_a", "cy_l", "cy_i", "cy_z", "cy_a", "cy_c", "cy_i", "cy_ya", " ", "cy_v", " ", "cy_d", "cy_e", "cy_n", "cy_soft", " ", "3">>, "sales_day_3">>,
    <<<<"l", "u", "k", "_", "c", "a", "f", "e">>, "luk_cafe">>,
    <<<<"l", "u", "k", " ", "c", "a", "f", "e">>, "luk_cafe">>,
    <<<<"l", "u", "k", "c", "a", "f", "e">>, "luk_cafe">>,
    <<<<"cy_l", "cy_u", "cy_k", " ", "cy_k", "cy_a", "cy_f", "cy_e">>, "luk_cafe">>,
    <<<<"cy_l", "cy_u", "cy_k", "cy_k", "cy_a", "cy_f", "cy_e">>, "luk_cafe">>,
    <<<<"cy_p", "cy_r", "cy_i", "cy_z", "cy_n", "cy_a", "cy_k", " ", "l", "u", "k", "c", "a", "f", "e">>, "luk_cafe">>,
    <<<<"cy_p", "cy_r", "cy_i", "cy_z", "cy_n", "cy_a", "cy_k", " ", "l", "u", "k", " ", "c", "a", "f", "e">>, "luk_cafe">>
  }

\* COLUMN_MAP is a plain object literal, so the property read COLUMN_MAP[h]
\* also finds what Object.prototype defines.  A normalized header is lower
\* case, which leaves two such names; the read yields the function Object or
\* the object Object.prototype, both truthy, and a later use as a property
\* key converts them to these strings.
ObjectPrototype == {
    <<<<"c", "o", "n", "s", "t", "r", "u", "c", "t", "o", "r">>, "function Object() { [native code] }">>,
    <<<<"_", "_", "p", "r", "o", "t", "o", "_", "_">>, "[object Object]">>
  }

NoField == "undefined"

\* const dbField = COLUMN_MAP[normalized]
ColumnLookup(normalized) ==
    IF \E p \in COLUMN_MAP : p[1] = normalized
    THEN (CHOOSE p \in COLUMN_MAP : p[1] = normalized)[2]
    ELSE IF \E p \in ObjectPrototype : p[1] = normalized
         THEN (CHOOSE p \in ObjectPrototype : p[1] = normalized)[2]
         ELSE NoField

TEXT_FIELDS == {"station_no", "station_phone", "manager_phone", "territory_manager_phone"}

NUMERIC_FIELDS == {"sales_day_1", "sales_day_2", "sales_day_3"}

BOOLEAN_FIELDS == {"luk_cafe"}

\* ------------------------------------------------------------ values

Str(s) == [t |-> "string", s |-> s, m |-> 0, e |-> 0, b |-> FALSE]

Bool(b) == [t |-> "boolean", s |-> <<>>, m |-> 0, e |-> 0, b |-> b]

Null == [t |-> "null", s |-> <<>>, m |-> 0, e |-> 0, b |-> FALSE]

Undefined == [t |-> "undefined", s |-> <<>>, m |-> 0, e |-> 0, b |-> FALSE]

NaN == [t |-> "number", s |-> <<"N", "a", "N">>, m |-> 0, e |-> 0, b |-> FALSE]

\* +Infinity and -Infinity, sign = 1 or -1.
Infinity(sign) == [t |-> "number", s |-> <<"I", "n", "f">>, m |-> sign, e |-> 0, b |-> FALSE]

\* The finite number m * 10^e in its normal form: m carries no factor of 10.
RECURSIVE Num(_, _)
Num(m, e) ==
    IF m = 0 THEN [t |-> "number", s |-> <<>>, m |-> 0, e |-> 0, b |-> FALSE]
    ELSE IF m % 10 = 0 THEN Num(m \div 10, e + 1)
    ELSE [t |-> "number", s |-> <<>>, m |-> m, e |-> e, b |-> FALSE]

isNaN(v) == v = NaN

RECURSIVE NatToString(_)
NatToString(n) ==
    IF n < 10 THEN <<Digits[n + 1]>>
    ELSE NatToString(n \div 10) \o <<Digits[(n % 10) + 1]>>

Zeros(n) == [k \in 1..n |-> "0"]

\* The decimal notation of ds * 10^e, ds the digits of a positive integer.
DecimalNotation(ds, e) ==
    IF e >= 0 THEN ds \o Zeros(e)
    ELSE IF Len(ds) > -e
         THEN SubSeq(ds, 1, Len(ds) + e) \o <<".">> \o SubSeq(ds, Len(ds) + e + 1, Len(ds))
         ELSE <<"0", ".">> \o Zeros(-e - Len(ds)) \o ds

\* Number.prototype.toString for NaN, the infinities and the numbers written
\* in decimal notation (magnitude below 10^21 and at least 10^-6).
NumberToString(v) ==
    IF v.s = <<"N", "a", "N">> THEN v.s
    ELSE (IF v.m < 0 THEN <<"-">> ELSE <<>>)
         \o (IF v.s # <<>> THEN <<"I", "n", "f", "i", "n", "i", "t", "y">>
             ELSE DecimalNotation(NatToString(IF v.m < 0 THEN -v.m ELSE v.m), v.e))

\* String(value)
String(v) ==
    CASE v.t = "string" -> v.s
      [] v.t = "number" -> NumberToString(v)
      [] v.t = "boolean" -> IF v.b THEN <<"t", "r", "u", "e">> ELSE <<"f", "a", "l", "s", "e">>
      [] v.t = "null" -> <<"n", "u", "l", "l">>
      [] v.t = "undefined" -> <<"u", "n", "d", "e", "f", "i", "n", "e", "d">>

\* ------------------------------------------------------------ parseFloat

\* The longest prefix of s made of decimal digits.
RECURSIVE DigitPrefix(_)
DigitPrefix(s) ==
    IF s # <<>> /\ IsDigit(Head(s)) THEN <<Head(s)>> \o DigitPrefix(Tail(s)) ELSE <<>>

RECURSIVE DigitsValue(_)
DigitsValue(ds) ==
    IF ds = <<>> THEN 0 ELSE 10 * DigitsValue(SubSeq(ds, 1, Len(ds) - 1)) + DigitVal(ds[Len(ds)])

Drop(s, n) == SubSeq(s, n + 1, Len(s))

StartsWith(s, p) == Len(s) >= Len(p) /\ SubSeq(s, 1, Len(p)) = p

\* A leading sign, as a factor.
SignOf(s) == IF s # <<>> /\ Head(s) = "-" THEN -1 ELSE 1

StripSign(s) == IF s # <<>> /\ Head(s) \in {"+", "-"} THEN Tail(s) ELSE s

\* The digits after a decimal point at the head of s.
FractionDigits(s) == IF s # <<>> /\ Head(s) = "." THEN DigitPrefix(Tail(s)) ELSE <<>>

\* What follows the fraction fp at the head of s.
AfterFraction(s, fp) == IF s # <<>> /\ Head(s) = "." THEN Drop(s, 1 + Len(fp)) ELSE s

\* The value of an exponent part at the head of s; 0 when it has no digit.
ExponentValue(s) ==
    IF s # <<>> /\ Head(s) \in {"e", "E"}
    THEN SignOf(Tail(s)) * DigitsValue(DigitPrefix(StripSign(Tail(s))))
    ELSE 0

\* sign, integer digits ip, fraction digits fp, then rest.
DecimalLiteral(sign, ip, fp, rest) ==
    IF ip = <<>> /\ fp = <<>> THEN NaN
    ELSE Num(sign * DigitsValue(ip \o fp), ExponentValue(rest) - Len(fp))

AfterInteger(sign, ip, s) ==
    DecimalLiteral(sign, ip, FractionDigits(s), AfterFraction(s, FractionDigits(s)))

Unsigned(sign, s) ==
    IF StartsWith(s, <<"I", "n", "f", "i", "n", "i", "t", "y">>) THEN Infinity(sign)
    ELSE AfterInteger(sign, DigitPrefix(s), Drop(s, Len(DigitPrefix(s))))

\* parseFloat(string): white space is skipped, then the longest prefix that
\* is a decimal literal (sign, Infinity or digits with an optional fraction
\* and exponent) is the result; NaN when there is none.
parseFloat(str) == Unsigned(SignOf(trimStart(str)), StripSign(trimStart(str)))

\* ------------------------------------------------------------ cell coercion

truthyValues == {<<"x">>, <<"checkmark">>, <<"heavycheck">>, <<"cy_d", "cy_a">>,
                 <<"y", "e", "s">>, <<"t", "r", "u", "e">>, <<"1">>}

\* ParseBooleanString without the replacement of the Cyrillic letter.
ParseBooleanStringLatinOnly(str) ==
    IF str = <<>> THEN FALSE
    ELSE str \in truthyValues

\* parseBooleanField from `let str = String(value).trim().toLowerCase()` on.
ParseBooleanString(str) ==
    IF str = <<>> THEN FALSE
    ELSE replaceChar(str, "cy_h", "x") \in truthyValues

\* function parseBooleanField(value: unknown): boolean
parseBooleanField(value) ==
    IF value.t \in {"null", "undefined"} THEN FALSE
    ELSE IF value.t = "number" THEN value.s = <<>> /\ value.m = 1 /\ value.e = 0
    ELSE IF value.t = "boolean" THEN value.b
    ELSE ParseBooleanString(toLowerCase(trim(String(value))))

\* NumberOrNull without the isNaN test.
NumberOrNullKeepingNaN(num) == num

\* normalizeValue's numeric branch, num the parsed number.
NumberOrNull(num) == IF isNaN(num) THEN Null ELSE num

\* normalizeValue with the text fields parsed as the numeric ones are.
normalizeValueTextAsNumber(dbField, value) ==
    IF dbField \in BOOLEAN_FIELDS THEN Bool(parseBooleanField(value))
    ELSE IF value.t \in {"null", "undefined"} \/ (value.t = "string" /\ value.s = <<>>) THEN Null
    ELSE IF dbField \in NUMERIC_FIELDS /\ value.t = "number" THEN NumberOrNull(value)
    ELSE IF dbField \in NUMERIC_FIELDS \cup TEXT_FIELDS THEN NumberOrNull(parseFloat(String(value)))
    ELSE Str(trim(String(value)))

\* function normalizeValue(dbField: string, value: unknown): unknown
normalizeValue(dbField, value) ==
    IF dbField \in BOOLEAN_FIELDS THEN Bool(parseBooleanField(value))
    ELSE IF value.t \in {"null", "undefined"} \/ (value.t = "string" /\ value.s = <<>>) THEN Null
    ELSE IF dbField \in NUMERIC_FIELDS /\ value.t = "number" THEN NumberOrNull(value)
    ELSE IF dbField \in NUMERIC_FIELDS THEN NumberOrNull(parseFloat(String(value)))
    ELSE Str(trim(String(value)))

\* ------------------------------------------------------------ row assembly

\* new Date().toISOString(): the clock reading is one token; nothing in the
\* page compares two timestamps.
Now == Str(<<"n", "o", "w">>)

\* mapRowToStation's null result.
null == [null |-> TRUE]

\* SetField without the test: `station[dbField] = value`.
SetFieldWithNull(station, dbField, value) == (dbField :> value) @@ station

\* `if (value !== null) station[dbField] = value`
SetField(station, dbField, value) ==
    IF value # Null THEN (dbField :> value) @@ station ELSE station

\* One turn of the loop over Object.entries(row), dbField being
\* COLUMN_MAP[normalizeHeader(excelCol)].
AssignColumn(station, dbField, rawValue) ==
    IF dbField = NoField THEN station
    ELSE SetField(station, dbField, normalizeValue(dbField, rawValue))

\* AssignColumns taking the entries from the last to the first.
RECURSIVE AssignColumnsLastFirst(_, _)
AssignColumnsLastFirst(entries, station) ==
    IF entries = <<>> THEN station
    ELSE AssignColumn(AssignColumnsLastFirst(Tail(entries), station),
                      ColumnLookup(normalizeHeader(Head(entries)[1])), Head(entries)[2])

\* The loop over Object.entries(row): a row is the sequence of its
\* <<header, cell>> entries, in property order.
RECURSIVE AssignColumns(_, _)
AssignColumns(entries, station) ==
    IF entries = <<>> THEN station
    ELSE AssignColumns(Tail(entries),
                       AssignColumn(station, ColumnLookup(normalizeHeader(Head(entries)[1])), Head(entries)[2]))

DefaultLukCafeAbsent(station) == station

\* `if (station.luk_cafe === undefined) station.luk_cafe = false`
DefaultLukCafe(station) ==
    IF "luk_cafe" \notin DOMAIN station THEN ("luk_cafe" :> Bool(FALSE)) @@ station ELSE station

RequireStationNoUnchecked(station) == station

\* The required field: null unless station_no is a string that is not empty
\* after trimming.
RequireStationNo(station) ==
    IF "station_no" \notin DOMAIN station THEN null
    ELSE IF station["station_no"].t # "string" \/ trim(station["station_no"].s) = <<>> THEN null
    ELSE station

\* function mapRowToStation(row, rowIndex)
mapRowToStation(row, rowIndex) ==
    RequireStationNo(DefaultLukCafe(
        AssignColumns(row, ("is_active" :> Bool(TRUE)) @@ ("updated_at" :> Now))))

\* ------------------------------------------------------------ spreadsheets

\* const BATCH_SIZE = 100 (Import.tsx:346), scaled down so that a spreadsheet
\* of MaxRows rows spans several batches.
BATCH_SIZE == 2

\* The rows the spreadsheets are made of.  Headers are written as an
\* operator would: mixed case, extra white space, Russian or English.
RowPool == {
    \* station 01 with an address, the cafe mark (Cyrillic capital Ha), a
    \* region and a sales figure
    << <<<<"numero", " ", "CY_A", "CY_Z", "CY_S">>, Str(<<"0", "1">>)>>,
       <<<<"CY_A", "cy_d", "cy_r", "cy_e", "cy_s">>, Str(<<"a">>)>>,
       <<<<"L", "u", "k", "C", "a", "f", "e">>, Str(<<"CY_H">>)>>,
       <<<<"CY_R", "cy_e", "cy_g", "cy_i", "cy_o", "cy_n">>, Str(<<"r">>)>>,
       <<<<"S", "a", "l", "e", "s", " ", "D", "a", "y", " ", "1">>, Str(<<"7">>)>> >>,
    \* station 02 with a sales figure and a column the page does not know
    << <<<<" ", "S", "t", "a", "t", "i", "o", "n", " ", "\t", "N", "O", " ">>, Str(<<"0", "2">>)>>,
       <<<<"S", "a", "l", "e", "s", " ", "D", "a", "y", " ", "1">>, Str(<<"1", ".", "5">>)>>,
       <<<<"C", "o", "m", "m", "e", "n", "t">>, Str(<<"z">>)>> >>,
    \* station 01 again, with another address, no cafe column, an empty
    \* region cell and a sales cell that is no number
    << <<<<"s", "t", "a", "t", "i", "o", "n", "_", "n", "o">>, Str(<<" ", "0", "1">>)>>,
       <<<<"a", "d", "d", "r", "e", "s", "s">>, Str(<<"b">>)>>,
       <<<<"R", "e", "g", "i", "o", "n">>, Str(<<>>)>>,
       <<<<"S", "a", "l", "e", "s", "_", "D", "a", "y", "_", "1">>, Str(<<"n", "/", "a">>)>> >>,
    \* a row whose station number cell is empty (defval '')
    << <<<<"S", "t", "a", "t", "i", "o", "n", " ", "N", "o">>, Str(<<>>)>>,
       <<<<"CY_A", "cy_d", "cy_r", "cy_e", "cy_s">>, Str(<<"a">>)>> >>
  }

\* The sequences of at most n elements of S, no element taken twice.
RECURSIVE SeqsUpTo(_, _)
SeqsUpTo(S, n) ==
    IF n = 0 THEN {<<>>}
    ELSE LET shorter == SeqsUpTo(S, n - 1)
         IN  shorter \cup {Append(q, x) : <<q, x>> \in {qx \in shorter \X S : \A k \in DOMAIN qx[1] : qx[1][k] # qx[2]}}

\* parseExcel's results: a file is taken to be the rows the spreadsheet
\* library decodes it to, here at most MaxRows rows of the pool, all different.
Files == SeqsUpTo(RowPool, MaxRows)

\* No file selected: shaped as a file is (rows of <<header, cell>> entries)
\* and equal to none of Files.
NoFile == << << <<<<"no file">>, Null>> >> >>

\* mapRowToStation(row, rowIndex) of every row a file can hold, worked out
\* once.  The result does not depend on rowIndex, which only goes into the
\* console messages.
StationOfRow == [row \in RowPool |-> mapRowToStation(row, 0)]

\* ------------------------------------------------------------ state

\* The operator sessions (instances of the Import page) sharing one store.
Sessions == {1, 2}

VARIABLES
    store,      \* the stations table: station_no |-> entity
    file,       \* useState: the selected file, or NoFile
    importing,  \* useState
    result,     \* useState: the ImportResult shown, or NoResult
    pc,         \* where handleImport stands
    rows,       \* handleImport's locals
    stations,
    errors,
    imported,
    i,
    retrying,   \* TRUE inside the `if (upsertError)` loop
    j,
    ops,        \* the store calls handleImport has made and their outcomes
    before,     \* the stations table as it was when handleImport was called
    preview,    \* the rows shown under the file input
    reading,    \* the files handleFileChange's FileReaders have yet to load
    cell,       \* a call normalizeValue(cell.field, cell.value) ...
    coerced,    \* ... what it returned, or NotCalled
    assembled,  \* what mapRowToStation returned for the row of that cell, or NotCalled
    sheetHeader, \* a column header of a spreadsheet, as mapRowToStation meets it
    normalizedHeader, \* what normalizeHeader(sheetHeader) returned, or NotCalled
    resolved,   \* what COLUMN_MAP[normalizeHeader(sheetHeader)] gave as a property key, or NotCalled
    excelRow    \* a row of a spreadsheet, as sheet_to_json returns it and Validate passes it on

\* The variables of the calls of the header and coercion functions on their own.
coercion == <<cell, coerced, assembled, sheetHeader, normalizedHeader, resolved, excelRow>>

\* The preview and the FileReaders that load it.
previewing == <<preview, reading>>

\* The variables of the page and the table.
page == <<store, file, importing, result, pc, rows, stations, errors, imported, i, retrying, j, ops, before,
          preview, reading>>

vars == <<store, file, importing, result, pc, rows, stations, errors, imported, i, retrying, j, ops, before,
          preview, reading,
          cell, coerced, assembled, sheetHeader, normalizedHeader, resolved, excelRow>>

NotCalled == [called |-> FALSE]

\* What a call returned.
Returned(value) == [called |-> TRUE, value |-> value]

\* No call of the coercion functions on their own.
NoCell == [field |-> "", value |-> [t |-> "none"]]

\* No call of the header functions on their own.
NoHeader == <<"no header">>

\* No call of mapRowToStation on a row of its own.
NoRow == << <<<<"no row">>, [t |-> "none"]>> >>

NoResult == [success |-> FALSE, imported |-> -1, errors |-> <<>>]

\* An entry of errors: `Row ${row}...: ${msg}`, row = 0 for a top-level message.
ErrorEntry(row, key, msg) == [row |-> row, key |-> key, msg |-> msg]

\* ------------------------------------------------------------ the stations table

\* The table is the remote one the page reaches through supabase.  A call
\* either returns without error, its effect applied, or returns an error,
\* nothing changed: each call is one statement of the store.  Which of the
\* two happens is the store's choice (a constraint, the network), so every
\* call of the model may end either way.

\* '00000000-0000-0000-0000-000000000000'
NilUuid == Str(<<"0">>)

\* The id the table's default gives a new row: fresh and not nil.
NewUuid(table) == Str(NatToString(Cardinality(DOMAIN table) + 1))

\* DeactivateAll as a delete of every row (replace by delete and insert).
DeleteAll(table) == [k \in {} |-> table[k]]

\* DeactivateAll with a filter that leaves out the row of one real id.
DeactivateAllButFirst(table) ==
    [k \in DOMAIN table |->
        IF table[k]["id"] # Str(<<"1">>)
        THEN ("is_active" :> Bool(FALSE)) @@ ("updated_at" :> Now) @@ table[k]
        ELSE table[k]]

\* .update({ is_active: false, updated_at }).neq('id', NilUuid)
DeactivateAll(table) ==
    [k \in DOMAIN table |->
        IF table[k]["id"] # NilUuid
        THEN ("is_active" :> Bool(FALSE)) @@ ("updated_at" :> Now) @@ table[k]
        ELSE table[k]]

\* UpsertRow with the stored columns kept on a conflict: the record only
\* adds the columns the row does not have.
UpsertRowKeepingStored(table, station) ==
    LET key == station["station_no"].s
    IN  IF key \in DOMAIN table
        THEN [table EXCEPT ![key] = table[key] @@ station]
        ELSE (key :> (station @@ ("id" :> NewUuid(table)))) @@ table

\* UpsertRow that leaves an existing row alone (ignoreDuplicates: true).
UpsertRowIgnoringDuplicates(table, station) ==
    LET key == station["station_no"].s
    IN  IF key \in DOMAIN table
        THEN table
        ELSE (key :> (station @@ ("id" :> NewUuid(table)))) @@ table

\* .upsert(station, { onConflict: 'station_no' }) of one record: an existing
\* row with that station_no takes the record's columns, else a row is inserted.
UpsertRow(table, station) ==
    LET key == station["station_no"].s
    IN  IF key \in DOMAIN table
        THEN [table EXCEPT ![key] = station @@ table[key]]
        ELSE (key :> (station @@ ("id" :> NewUuid(table)))) @@ table

\* UpsertRows taking the records from the last to the first, an earlier
\* record of the same station_no over a later one.
RECURSIVE UpsertRowsLastFirst(_, _)
UpsertRowsLastFirst(table, batch) ==
    IF batch = <<>> THEN table
    ELSE UpsertRow(UpsertRowsLastFirst(table, Tail(batch)), Head(batch))

\* .upsert(batch, { onConflict: 'station_no', ignoreDuplicates: false }):
\* the records in order, a later record of the same station_no over an
\* earlier one.
RECURSIVE UpsertRows(_, _)
UpsertRows(table, batch) ==
    IF batch = <<>> THEN table
    ELSE UpsertRows(UpsertRow(table, Head(batch)), Tail(batch))

\* rows.slice(0, 5) (Import.tsx:284)
PREVIEW_ROWS == 5

\* stations.slice(from, from + BATCH_SIZE), from 0-based
Slice(seq, from, to) ==
    SubSeq(seq, from + 1, IF to < Len(seq) THEN to ELSE Len(seq))

\* ------------------------------------------------------------ the import page

\* The page as mounted, the table empty.
Mounted ==
    /\ store = <<>>
    /\ file = [r \in Sessions |-> NoFile]
    /\ importing = [r \in Sessions |-> FALSE]
    /\ result = [r \in Sessions |-> NoResult]
    /\ pc = [r \in Sessions |-> "Idle"]
    /\ rows = [r \in Sessions |-> <<>>]
    /\ stations = [r \in Sessions |-> <<>>]
    /\ errors = [r \in Sessions |-> <<>>]
    /\ imported = [r \in Sessions |-> 0]
    /\ i = [r \in Sessions |-> 0]
    /\ retrying = [r \in Sessions |-> FALSE]
    /\ j = [r \in Sessions |-> 0]
    /\ ops = [r \in Sessions |-> <<>>]
    /\ before = [r \in Sessions |-> <<>>]
    /\ preview = [r \in Sessions |-> <<>>]
    /\ reading = [r \in Sessions |-> {}]

Init ==
    /\ Mounted
    /\ cell = NoCell
    /\ coerced = NotCalled
    /\ assembled = NotCalled
    /\ sheetHeader = NoHeader
    /\ normalizedHeader = NotCalled
    /\ resolved = NotCalled
    /\ excelRow = NoRow

\* A store call in ops: the 0-based index in stations of its first record,
\* the number of records it carries (0 for the deactivation), its outcome.
StoreCall(op, from, n, ok) == [op |-> op, from |-> from, n |-> n, ok |-> ok]

\* handleFileChange with a file chosen (no file chosen: it returns at once):
\* setFile and setResult.  The input is rendered while no result is shown
\* and disabled while importing.  The handler's last statements, which
\* start the FileReader of the preview, are ReadForPreview.  The
\* specifications of the import run leave the preview out (UNCHANGED
\* previewing): it decides only whether the import button is rendered, and
\* any file can be the selected one while a preview is shown (the preview
\* of the file chosen before stays until the new file's reader has loaded).
handleFileChange(r, f) ==
    /\ result[r] = NoResult
    /\ ~importing[r]
    /\ file' = [file EXCEPT ![r] = f]
    /\ result' = [result EXCEPT ![r] = NoResult]
    /\ UNCHANGED <<store, importing, pc, rows, stations, errors, imported, i, retrying, j, ops, before, coercion>>

\* handleFileChange, `reader.readAsBinaryString(selectedFile)`: one more
\* FileReader is to load the file, at most MaxReading of them at a time.
ReadForPreview(r, f) ==
    /\ Cardinality(reading[r] \cup {f}) <= MaxReading
    /\ reading' = [reading EXCEPT ![r] = reading[r] \cup {f}]
    /\ UNCHANGED preview

\* reader.onload of the FileReader of file f, whenever that file has been
\* read: setPreview(parseExcel(data).slice(0, 5)).
PreviewLoaded(r, f) ==
    /\ f \in reading[r]
    /\ preview' = [preview EXCEPT ![r] = Slice(f, 0, PREVIEW_ROWS)]
    /\ reading' = [reading EXCEPT ![r] = reading[r] \ {f}]
    /\ UNCHANGED <<store, file, importing, result, pc, rows, stations, errors, imported, i, retrying, j, ops,
                   before, coercion>>

\* StartImport behind a lock: no run starts while a run of any session is
\* importing.
StartImportLocked(r) ==
    /\ \A q \in Sessions : ~importing[q]
    /\ file[r] # NoFile
    /\ result[r] = NoResult
    /\ importing' = [importing EXCEPT ![r] = TRUE]
    /\ result' = [result EXCEPT ![r] = NoResult]
    /\ errors' = [errors EXCEPT ![r] = <<>>]
    /\ imported' = [imported EXCEPT ![r] = 0]
    /\ pc' = [pc EXCEPT ![r] = "Reading"]
    /\ rows' = [rows EXCEPT ![r] = <<>>]
    /\ stations' = [stations EXCEPT ![r] = <<>>]
    /\ i' = [i EXCEPT ![r] = 0]
    /\ retrying' = [retrying EXCEPT ![r] = FALSE]
    /\ j' = [j EXCEPT ![r] = 0]
    /\ ops' = [ops EXCEPT ![r] = <<>>]
    /\ before' = [before EXCEPT ![r] = store]
    /\ UNCHANGED <<store, file, previewing, coercion>>

\* handleImport, from the click to the await of the FileReader, the operator
\* having confirmed (declining returns with nothing changed).  The button is
\* rendered while no result is shown and disabled while importing.
StartImport(r) ==
    /\ file[r] # NoFile
    /\ result[r] = NoResult
    /\ ~importing[r]
    /\ importing' = [importing EXCEPT ![r] = TRUE]
    /\ result' = [result EXCEPT ![r] = NoResult]
    /\ errors' = [errors EXCEPT ![r] = <<>>]
    /\ imported' = [imported EXCEPT ![r] = 0]
    /\ pc' = [pc EXCEPT ![r] = "Reading"]
    /\ rows' = [rows EXCEPT ![r] = <<>>]
    /\ stations' = [stations EXCEPT ![r] = <<>>]
    /\ i' = [i EXCEPT ![r] = 0]
    /\ retrying' = [retrying EXCEPT ![r] = FALSE]
    /\ j' = [j EXCEPT ![r] = 0]
    /\ ops' = [ops EXCEPT ![r] = <<>>]
    /\ before' = [before EXCEPT ![r] = store]
    /\ UNCHANGED <<store, file, previewing, coercion>>

\* Fail reporting the message after the errors collected so far.
FailKeepingErrors(r, message) ==
    /\ result' = [result EXCEPT ![r] =
                    [success |-> FALSE, imported |-> 0,
                     errors |-> Append(errors[r], ErrorEntry(0, <<>>, message))]]
    /\ importing' = [importing EXCEPT ![r] = FALSE]
    /\ pc' = [pc EXCEPT ![r] = "Failed"]

\* The catch block and the statement after it.
Fail(r, message) ==
    /\ result' = [result EXCEPT ![r] =
                    [success |-> FALSE, imported |-> 0, errors |-> <<ErrorEntry(0, <<>>, message)>>]]
    /\ importing' = [importing EXCEPT ![r] = FALSE]
    /\ pc' = [pc EXCEPT ![r] = "Failed"]

\* Finish calling a run successful when it wrote a record.
FinishSuccessIfImported(r, importedNow, errorsNow) ==
    /\ result' = [result EXCEPT ![r] =
                    [success |-> importedNow > 0, imported |-> importedNow, errors |-> errorsNow]]
    /\ importing' = [importing EXCEPT ![r] = FALSE]
    /\ pc' = [pc EXCEPT ![r] = "Done"]

\* Finish without the statement after the try: importing stays set.
FinishStillImporting(r, importedNow, errorsNow) ==
    /\ result' = [result EXCEPT ![r] =
                    [success |-> Len(errorsNow) = 0, imported |-> importedNow, errors |-> errorsNow]]
    /\ importing' = importing
    /\ pc' = [pc EXCEPT ![r] = "Done"]

\* setResult({ success, imported, errors }) after the last batch, and the
\* statement after the try.
Finish(r, importedNow, errorsNow) ==
    /\ result' = [result EXCEPT ![r] =
                    [success |-> Len(errorsNow) = 0, imported |-> importedNow, errors |-> errorsNow]]
    /\ importing' = [importing EXCEPT ![r] = FALSE]
    /\ pc' = [pc EXCEPT ![r] = "Done"]

\* ReadFile without `if (rows.length === 0) throw`.
ReadFileUnchecked(r) ==
    /\ pc[r] = "Reading"
    /\ rows' = [rows EXCEPT ![r] = file[r]]
    /\ pc' = [pc EXCEPT ![r] = "Validating"]
    /\ UNCHANGED <<store, file, importing, result, stations, errors, imported, i, retrying, j, ops, before, previewing, coercion>>

\* Step 1: the FileReader has loaded the file and parseExcel has run.
ReadFile(r) ==
    /\ pc[r] = "Reading"
    /\ rows' = [rows EXCEPT ![r] = file[r]]
    /\ IF Len(file[r]) = 0
       THEN Fail(r, "Excel file is empty")
       ELSE /\ pc' = [pc EXCEPT ![r] = "Validating"]
            /\ UNCHANGED <<importing, result>>
    /\ UNCHANGED <<store, file, stations, errors, imported, i, retrying, j, ops, before, previewing, coercion>>

\* One turn of step 2's loop, station being mapRowToStation(rows[i], i):
\* what it pushes to stations ...
PushStation(station) == IF station = null THEN <<>> ELSE <<station>>

\* PushRowError with the row number one short (the header row forgotten).
PushRowErrorOffByOne(station, index) ==
    IF station = null
    THEN <<ErrorEntry(index + 1, <<>>, "Missing or invalid station_no")>>
    ELSE <<>>

\* ... and what it pushes to errors.
PushRowError(station, index) ==
    IF station = null
    THEN <<ErrorEntry(index + 2, <<>>, "Missing or invalid station_no")>>
    ELSE <<>>

\* The stations of step 2's loop: the rows mapRowToStation accepts, in order.
RECURSIVE ValidStations(_, _)
ValidStations(rs, index) ==
    IF index >= Len(rs) THEN <<>>
    ELSE PushStation(StationOfRow[rs[index + 1]]) \o ValidStations(rs, index + 1)

\* The errors of step 2's loop: one entry for each row it rejects, in order.
RECURSIVE RowErrors(_, _)
RowErrors(rs, index) ==
    IF index >= Len(rs) THEN <<>>
    ELSE PushRowError(StationOfRow[rs[index + 1]], index) \o RowErrors(rs, index + 1)

\* Validate without `if (stations.length === 0) throw`.
ValidateUnchecked(r) ==
    /\ pc[r] = "Validating"
    /\ stations' = [stations EXCEPT ![r] = ValidStations(rows[r], 0)]
    /\ errors' = [errors EXCEPT ![r] = errors[r] \o RowErrors(rows[r], 0)]
    /\ pc' = [pc EXCEPT ![r] = "Deactivating"]
    /\ UNCHANGED <<store, file, importing, result, rows, imported, i, retrying, j, ops, before, previewing, coercion>>

\* Step 2: every row is mapped; no valid station ends the run.
Validate(r) ==
    /\ pc[r] = "Validating"
    /\ stations' = [stations EXCEPT ![r] = ValidStations(rows[r], 0)]
    /\ errors' = [errors EXCEPT ![r] = errors[r] \o RowErrors(rows[r], 0)]
    /\ IF Len(ValidStations(rows[r], 0)) = 0
       THEN Fail(r, "No valid stations found in Excel file")
       ELSE /\ pc' = [pc EXCEPT ![r] = "Deactivating"]
            /\ UNCHANGED <<importing, result>>
    /\ UNCHANGED <<store, file, rows, imported, i, retrying, j, ops, before, previewing, coercion>>

\* Deactivate without `if (deactivateError) throw`.
DeactivateUnchecked(r) ==
    /\ pc[r] = "Deactivating"
    /\ \E ok \in BOOLEAN :
        /\ ops' = [ops EXCEPT ![r] = Append(ops[r], StoreCall("deactivate", 0, 0, ok))]
        /\ store' = IF ok THEN DeactivateAll(store) ELSE store
    /\ pc' = [pc EXCEPT ![r] = "Upserting"]
    /\ i' = [i EXCEPT ![r] = 0]
    /\ UNCHANGED <<file, importing, result, rows, stations, errors, imported, retrying, j, before, previewing, coercion>>

\* Step 3: the update of every station returns, with an error or without.
Deactivate(r) ==
    /\ pc[r] = "Deactivating"
    /\ \E ok \in BOOLEAN :
        /\ ops' = [ops EXCEPT ![r] = Append(ops[r], StoreCall("deactivate", 0, 0, ok))]
        /\ IF ok
           THEN /\ store' = DeactivateAll(store)
                /\ pc' = [pc EXCEPT ![r] = "Upserting"]
                /\ UNCHANGED <<importing, result>>
           ELSE /\ Fail(r, "Failed to deactivate stations")
                /\ UNCHANGED store
    /\ i' = [i EXCEPT ![r] = 0]
    /\ UNCHANGED <<file, rows, stations, errors, imported, retrying, j, before, previewing, coercion>>

\* NextBatch with `i++` for `i += BATCH_SIZE`.
NextBatchByOne(r, importedNow, errorsNow) ==
    /\ i' = [i EXCEPT ![r] = i[r] + 1]
    /\ retrying' = [retrying EXCEPT ![r] = FALSE]
    /\ imported' = [imported EXCEPT ![r] = importedNow]
    /\ errors' = [errors EXCEPT ![r] = errorsNow]
    /\ IF i[r] + 1 < Len(stations[r])
       THEN UNCHANGED <<importing, result, pc>>
       ELSE Finish(r, importedNow, errorsNow)

\* The loop header `i += BATCH_SIZE` after a batch is dealt with: the next
\* batch, or the result when there is none.
NextBatch(r, importedNow, errorsNow) ==
    /\ i' = [i EXCEPT ![r] = i[r] + BATCH_SIZE]
    /\ retrying' = [retrying EXCEPT ![r] = FALSE]
    /\ imported' = [imported EXCEPT ![r] = importedNow]
    /\ errors' = [errors EXCEPT ![r] = errorsNow]
    /\ IF i[r] + BATCH_SIZE < Len(stations[r])
       THEN UNCHANGED <<importing, result, pc>>
       ELSE Finish(r, importedNow, errorsNow)

\* UpsertBatch with the store's error thrown (throwOnError): a failed bulk
\* upsert ends the run in the catch block.
UpsertBatchThrowing(r) ==
    /\ pc[r] = "Upserting"
    /\ ~retrying[r]
    /\ LET batch == Slice(stations[r], i[r], i[r] + BATCH_SIZE)
       IN  \E ok \in BOOLEAN :
            /\ ops' = [ops EXCEPT ![r] = Append(ops[r], StoreCall("upsertBatch", i[r], Len(batch), ok))]
            /\ IF ok
               THEN /\ store' = UpsertRows(store, batch)
                    /\ j' = j
                    /\ NextBatch(r, imported[r] + Len(batch), errors[r])
               ELSE /\ Fail(r, "upsert error")
                    /\ UNCHANGED <<store, errors, imported, i, retrying, j>>
    /\ UNCHANGED <<file, rows, stations, before, previewing, coercion>>

\* UpsertBatch not waiting for the retries of the batch before: the bulk
\* upsert goes out while records of a failed batch are still to be retried.
UpsertBatchUnawaited(r) ==
    /\ pc[r] = "Upserting"
    /\ LET batch == Slice(stations[r], i[r], i[r] + BATCH_SIZE)
       IN  \E ok \in BOOLEAN :
            /\ ops' = [ops EXCEPT ![r] = Append(ops[r], StoreCall("upsertBatch", i[r], Len(batch), ok))]
            /\ IF ok
               THEN /\ store' = UpsertRows(store, batch)
                    /\ j' = j
                    /\ NextBatch(r, imported[r] + Len(batch), errors[r])
               ELSE /\ retrying' = [retrying EXCEPT ![r] = TRUE]
                    /\ j' = [j EXCEPT ![r] = 0]
                    /\ UNCHANGED <<store, importing, result, pc, errors, imported, i>>
    /\ UNCHANGED <<file, rows, stations, before, previewing, coercion>>

\* Step 4: the upsert of the batch at i returns.
UpsertBatch(r) ==
    /\ pc[r] = "Upserting"
    /\ ~retrying[r]
    /\ LET batch == Slice(stations[r], i[r], i[r] + BATCH_SIZE)
       IN  \E ok \in BOOLEAN :
            /\ ops' = [ops EXCEPT ![r] = Append(ops[r], StoreCall("upsertBatch", i[r], Len(batch), ok))]
            /\ IF ok
               THEN /\ store' = UpsertRows(store, batch)
                    /\ j' = j
                    /\ NextBatch(r, imported[r] + Len(batch), errors[r])
               ELSE /\ retrying' = [retrying EXCEPT ![r] = TRUE]
                    /\ j' = [j EXCEPT ![r] = 0]
                    /\ UNCHANGED <<store, importing, result, pc, errors, imported, i>>
    /\ UNCHANGED <<file, rows, stations, before, previewing, coercion>>

\* UpsertOne leaving the loop over the batch at the first record that fails.
UpsertOneBreaking(r) ==
    /\ pc[r] = "Upserting"
    /\ retrying[r]
    /\ LET batch == Slice(stations[r], i[r], i[r] + BATCH_SIZE)
           station == batch[j[r] + 1]
           rowNum == i[r] + j[r] + 2
       IN  \E ok \in BOOLEAN :
            /\ ops' = [ops EXCEPT ![r] = Append(ops[r], StoreCall("upsertOne", i[r] + j[r], 1, ok))]
            /\ store' = IF ok THEN UpsertRow(store, station) ELSE store
            /\ j' = [j EXCEPT ![r] = j[r] + 1]
            /\ LET importedNow == IF ok THEN imported[r] + 1 ELSE imported[r]
                   errorsNow == IF ok THEN errors[r]
                                ELSE Append(errors[r], ErrorEntry(rowNum, station["station_no"].s, "upsert error"))
               IN  IF ok /\ j[r] + 1 < Len(batch)
                   THEN /\ imported' = [imported EXCEPT ![r] = importedNow]
                        /\ errors' = [errors EXCEPT ![r] = errorsNow]
                        /\ UNCHANGED <<importing, result, pc, i, retrying>>
                   ELSE NextBatch(r, importedNow, errorsNow)
    /\ UNCHANGED <<file, rows, stations, before, previewing, coercion>>

\* UpsertOne against a store that applies the record although it returns an
\* error.
UpsertOneWritingOnError(r) ==
    /\ pc[r] = "Upserting"
    /\ retrying[r]
    /\ LET batch == Slice(stations[r], i[r], i[r] + BATCH_SIZE)
           station == batch[j[r] + 1]
           rowNum == i[r] + j[r] + 2
       IN  \E ok \in BOOLEAN :
            /\ ops' = [ops EXCEPT ![r] = Append(ops[r], StoreCall("upsertOne", i[r] + j[r], 1, ok))]
            /\ store' = UpsertRow(store, station)
            /\ j' = [j EXCEPT ![r] = j[r] + 1]
            /\ LET importedNow == IF ok THEN imported[r] + 1 ELSE imported[r]
                   errorsNow == IF ok THEN errors[r]
                                ELSE Append(errors[r], ErrorEntry(rowNum, station["station_no"].s, "upsert error"))
               IN  IF j[r] + 1 < Len(batch)
                   THEN /\ imported' = [imported EXCEPT ![r] = importedNow]
                        /\ errors' = [errors EXCEPT ![r] = errorsNow]
                        /\ UNCHANGED <<importing, result, pc, i, retrying>>
                   ELSE NextBatch(r, importedNow, errorsNow)
    /\ UNCHANGED <<file, rows, stations, before, previewing, coercion>>

\* UpsertOne with `imported++` after the if: a record that failed is counted
\* as written and reported as an error.
UpsertOneCountingAll(r) ==
    /\ pc[r] = "Upserting"
    /\ retrying[r]
    /\ LET batch == Slice(stations[r], i[r], i[r] + BATCH_SIZE)
           station == batch[j[r] + 1]
           rowNum == i[r] + j[r] + 2
       IN  \E ok \in BOOLEAN :
            /\ ops' = [ops EXCEPT ![r] = Append(ops[r], StoreCall("upsertOne", i[r] + j[r], 1, ok))]
            /\ store' = IF ok THEN UpsertRow(store, station) ELSE store
            /\ j' = [j EXCEPT ![r] = j[r] + 1]
            /\ LET importedNow == imported[r] + 1
                   errorsNow == IF ok THEN errors[r]
                                ELSE Append(errors[r], ErrorEntry(rowNum, station["station_no"].s, "upsert error"))
               IN  IF j[r] + 1 < Len(batch)
                   THEN /\ imported' = [imported EXCEPT ![r] = importedNow]
                        /\ errors' = [errors EXCEPT ![r] = errorsNow]
                        /\ UNCHANGED <<importing, result, pc, i, retrying>>
                   ELSE NextBatch(r, importedNow, errorsNow)
    /\ UNCHANGED <<file, rows, stations, before, previewing, coercion>>

\* Step 4, the batch having failed: the upsert of its record at j returns.
UpsertOne(r) ==
    /\ pc[r] = "Upserting"
    /\ retrying[r]
    /\ LET batch == Slice(stations[r], i[r], i[r] + BATCH_SIZE)
           station == batch[j[r] + 1]
           rowNum == i[r] + j[r] + 2
       IN  \E ok \in BOOLEAN :
            /\ ops' = [ops EXCEPT ![r] = Append(ops[r], StoreCall("upsertOne", i[r] + j[r], 1, ok))]
            /\ store' = IF ok THEN UpsertRow(store, station) ELSE store
            /\ j' = [j EXCEPT ![r] = j[r] + 1]
            /\ LET importedNow == IF ok THEN imported[r] + 1 ELSE imported[r]
                   errorsNow == IF ok THEN errors[r]
                                ELSE Append(errors[r], ErrorEntry(rowNum, station["station_no"].s, "upsert error"))
               IN  IF j[r] + 1 < Len(batch)
                   THEN /\ imported' = [imported EXCEPT ![r] = importedNow]
                        /\ errors' = [errors EXCEPT ![r] = errorsNow]
                        /\ UNCHANGED <<importing, result, pc, i, retrying>>
                   ELSE NextBatch(r, importedNow, errorsNow)
    /\ UNCHANGED <<file, rows, stations, before, previewing, coercion>>

\* function reset(), the button of the result panel; handleImport has
\* returned and its locals are gone.
reset(r) ==
    /\ result[r] # NoResult
    /\ file' = [file EXCEPT ![r] = NoFile]
    /\ result' = [result EXCEPT ![r] = NoResult]
    /\ pc' = [pc EXCEPT ![r] = "Idle"]
    /\ rows' = [rows EXCEPT ![r] = <<>>]
    /\ stations' = [stations EXCEPT ![r] = <<>>]
    /\ errors' = [errors EXCEPT ![r] = <<>>]
    /\ imported' = [imported EXCEPT ![r] = 0]
    /\ i' = [i EXCEPT ![r] = 0]
    /\ retrying' = [retrying EXCEPT ![r] = FALSE]
    /\ j' = [j EXCEPT ![r] = 0]
    /\ ops' = [ops EXCEPT ![r] = <<>>]
    /\ before' = [before EXCEPT ![r] = <<>>]
    /\ preview' = [preview EXCEPT ![r] = <<>>]
    /\ UNCHANGED <<store, importing, reading, coercion>>

\* One operator at a time: session 1 alone uses the page.
Operators == {1}

Next ==
    \E r \in Operators :
        \/ \E f \in Files : handleFileChange(r, f) /\ UNCHANGED previewing
        \/ StartImport(r)
        \/ ReadFile(r)
        \/ Validate(r)
        \/ Deactivate(r)
        \/ UpsertBatch(r)
        \/ UpsertOne(r)
        \/ reset(r)

Spec == Init /\ [][Next]_vars

\* ------------------------------------------------------------ properties

\* ------------------------------------------------------------ the coercion functions on their own

\* The characters the cell texts are made of: white space, the cafe marks
\* in both alphabets and both cases, and what a number is written with.
CellChars == {" ", "x", "X", "cy_h", "CY_H", "1", "0", ".", "-", "e"}

\* The texts of at most n characters of CellChars.
RECURSIVE CellTexts(_)
CellTexts(n) ==
    IF n = 0 THEN {<<>>}
    ELSE LET shorter == CellTexts(n - 1)
         IN  shorter \cup {Append(q, c) : <<q, c>> \in shorter \X CellChars}

\* Cell texts an operator types that CellTexts does not hold.
CellWords == {
    <<"checkmark">>, <<"heavycheck">>, <<" ", "checkmark", "\t">>,
    <<"cy_d", "cy_a">>, <<"CY_D", "cy_a">>, <<"cy_d", "cy_a", "!">>,
    <<"y", "e", "s">>, <<" ", "Y", "E", "S", " ">>, <<"y">>,
    <<"t", "r", "u", "e">>, <<"T", "R", "U", "E">>,
    <<"cy_n", "cy_e", "cy_t">>, <<"n", "o">>, <<"f", "a", "l", "s", "e">>,
    <<"0", "0", "1", "2", "3">>, <<" ", "0", "0", "1", "2", "3", "nbsp">>,
    <<"0", "0", " ", "1", "2">>, <<"+", "7", "0", "0", "1">>, <<"1", "e", "2", "1">>,
    <<"1", "2", "a", "b", "c">>, <<"a", "b", "c">>, <<"1", ",", "5">>, <<"+", "1", ".", "5">>,
    <<"\n", "-", ".", "5", "e", "-", "1">>, <<"N", "a", "N">>, <<"I", "n", "f", "i", "n", "i", "t", "y">>,
    <<"-", "I", "n", "f", "i", "n", "i", "t", "y", "x">>, <<"i", "n", "f", "i", "n", "i", "t", "y">>,
    <<"0", "x", "1", "0">>
  }

\* The arguments normalizeValue and parseBooleanField are called with
\* (value: unknown): texts, numbers, booleans, null and undefined.
CellValues ==
    {Str(s) : s \in CellTexts(MaxCellLen) \cup CellWords}
    \cup {Num(0, 0), Num(1, 0), Num(2, 0), Num(-1, 0), Num(15, -1), Num(1, 2), NaN, Infinity(1), Infinity(-1)}
    \cup {Bool(TRUE), Bool(FALSE), Null, Undefined}

\* The fields they are called for: the boolean one, two text ones, a
\* numeric one and one of no special kind.
CoercedFields == {"luk_cafe", "station_no", "station_phone", "sales_day_1", "address"}

\* A header COLUMN_MAP maps to the field: the column is named as the field.
HeaderOf(field) ==
    CASE field = "luk_cafe" -> <<"l", "u", "k", "_", "c", "a", "f", "e">>
      [] field = "station_no" -> <<"s", "t", "a", "t", "i", "o", "n", "_", "n", "o">>
      [] field = "station_phone" -> <<"s", "t", "a", "t", "i", "o", "n", "_", "p", "h", "o", "n", "e">>
      [] field = "sales_day_1" -> <<"s", "a", "l", "e", "s", "_", "d", "a", "y", "_", "1">>
      [] field = "address" -> <<"a", "d", "d", "r", "e", "s", "s">>

\* The row mapRowToStation is called with: the cell under the column of its
\* field, after a station number column holding 00123 unless the cell is
\* the station number itself.
RowOfCell(c) ==
    IF c.field = "station_no"
    THEN << <<HeaderOf(c.field), c.value>> >>
    ELSE << <<HeaderOf("station_no"), Str(<<"0", "0", "1", "2", "3">>)>>, <<HeaderOf(c.field), c.value>> >>

InitCoercion ==
    /\ Mounted
    /\ cell \in [field : CoercedFields, value : CellValues]
    /\ coerced = NotCalled
    /\ assembled = NotCalled
    /\ sheetHeader = NoHeader
    /\ normalizedHeader = NotCalled
    /\ resolved = NotCalled
    /\ excelRow = NoRow

\* normalizeValue(dbField, value) is called and returns.
Coerce ==
    /\ coerced = NotCalled
    /\ coerced' = normalizeValue(cell.field, cell.value)
    /\ UNCHANGED <<page, cell, assembled, sheetHeader, normalizedHeader, resolved, excelRow>>

\* mapRowToStation(row, 0) is called and returns.
Assemble ==
    /\ assembled = NotCalled
    /\ assembled' = mapRowToStation(RowOfCell(cell), 0)
    /\ UNCHANGED <<page, cell, coerced, sheetHeader, normalizedHeader, resolved, excelRow>>

NextCoercion == Coerce \/ Assemble

SpecCoercion == InitCoercion /\ [][NextCoercion]_vars

\* normalizeHeader and the COLUMN_MAP lookup on their own: one header, as
\* mapRowToStation meets it among the keys of a row.  Headers are every
\* text of at most MaxHeaderLen characters of HeaderChars, the keys of
\* COLUMN_MAP as written in the source, and the headers of HeaderWords.
HeaderChars == {" ", "\t", "N", "p", "o"}

RECURSIVE HeaderTexts(_)
HeaderTexts(n) ==
    IF n = 0 THEN {<<>>}
    ELSE HeaderTexts(n - 1) \cup
         {t \o <<c>> : t \in {u \in HeaderTexts(n - 1) : Len(u) = n - 1}, c \in HeaderChars}

HeaderWords == {
    <<"N", "P", "O">>,
    <<" ", "CY_N", "CY_P", "CY_O", " ">>,
    <<"S", "t", "a", "t", "i", "o", "n", " ", "\t", " ", "N", "o">>,
    <<"S", "t", "a", "t", "i", "o", "n", "nbsp", "N", "o", "\n">>,
    <<"S", "t", "a", "t", "i", "o", "n", "N", "o">>,
    <<"numero", " ", " ", "CY_A", "CY_Z", "CY_S">>,
    <<"L", "u", "k", " ", "C", "a", "f", "e">>,
    <<"c", "o", "m", "m", "e", "n", "t">>,
    <<"C", "o", "n", "s", "t", "r", "u", "c", "t", "o", "r">>,
    <<"c", "o", "n", "s", "t", "r", "u", "c", "t", "o", "r">>,
    <<" ", "_", "_", "P", "R", "O", "T", "O", "_", "_">>,
    <<"t", "o", "S", "t", "r", "i", "n", "g">>,
    <<"i", "s", "_", "a", "c", "t", "i", "v", "e">>,
    <<"i", "d">>
  }

Headers == HeaderTexts(MaxHeaderLen) \cup {p[1] : p \in COLUMN_MAP} \cup HeaderWords

InitHeaders ==
    /\ Mounted
    /\ cell = NoCell
    /\ coerced = NotCalled
    /\ assembled = NotCalled
    /\ sheetHeader \in Headers
    /\ normalizedHeader = NotCalled
    /\ resolved = NotCalled
    /\ excelRow = NoRow

\* normalizeHeader(excelCol) is called and returns.
Normalize ==
    /\ normalizedHeader = NotCalled
    /\ normalizedHeader' = Returned(normalizeHeader(sheetHeader))
    /\ UNCHANGED <<page, cell, coerced, assembled, sheetHeader, resolved, excelRow>>

\* const normalized = normalizeHeader(excelCol); const dbField = COLUMN_MAP[normalized]
Resolve ==
    /\ resolved = NotCalled
    /\ resolved' = Returned(ColumnLookup(normalizeHeader(sheetHeader)))
    /\ UNCHANGED <<page, cell, coerced, assembled, sheetHeader, normalizedHeader, excelRow>>

NextHeaders == Normalize \/ Resolve

SpecHeaders == InitHeaders /\ [][NextHeaders]_vars

\* mapRowToStation on its own: one row, of a station number column, or
\* none, and at most MaxColumns columns after it.  The headers are written
\* as an operator would; two of them resolve to address, two to luk_cafe,
\* one to sales_day_1 and three to no field of the table.  sheet_to_json
\* gives every column of a row a different header and, with raw: false and
\* defval: '', a text in every cell.
ColumnHeaders == {
    <<"A", "d", "d", "r", "e", "s", "s">>,
    <<"CY_A", "cy_d", "cy_r", "cy_e", "cy_s", " ", " ", "CY_A", "CY_Z", "CY_S">>,
    <<"L", "u", "k", " ", "C", "a", "f", "e">>,
    <<"CY_L", "cy_u", "cy_k", "CY_K", "cy_a", "cy_f", "cy_e">>,
    <<"S", "a", "l", "e", "s", " ", "D", "a", "y", " ", "1">>,
    <<"C", "o", "m", "m", "e", "n", "t">>,
    <<"C", "o", "n", "s", "t", "r", "u", "c", "t", "o", "r">>,
    <<"_", "_", "P", "r", "o", "t", "o", "_", "_">>
  }

ColumnCells == {Str(<<>>), Str(<<" ">>), Str(<<"x">>), Str(<<"1", ".", "5">>)}

\* The station number column: none, one with a number, one with an empty cell.
KeyColumns == {
    <<>>,
    << <<<<"S", "t", "a", "t", "i", "o", "n", " ", "N", "o">>, Str(<<"0", "1">>)>> >>,
    << <<<<"S", "t", "a", "t", "i", "o", "n", " ", "N", "o">>, Str(<<>>)>> >>
  }

\* The sequences of at most n columns, no header taken twice.
RECURSIVE ColumnsUpTo(_)
ColumnsUpTo(n) ==
    IF n = 0 THEN {<<>>}
    ELSE LET shorter == ColumnsUpTo(n - 1)
         IN  shorter \cup
             {Append(q, <<h, c>>) : <<q, h, c>> \in
                {qhc \in shorter \X ColumnHeaders \X ColumnCells :
                    /\ Len(qhc[1]) = n - 1
                    /\ \A k \in DOMAIN qhc[1] : qhc[1][k][1] # qhc[2]}}

Rows == {key \o columns : key \in KeyColumns, columns \in ColumnsUpTo(MaxColumns)}

InitRows ==
    /\ Mounted
    /\ cell = NoCell
    /\ coerced = NotCalled
    /\ assembled = NotCalled
    /\ sheetHeader = NoHeader
    /\ normalizedHeader = NotCalled
    /\ resolved = NotCalled
    /\ excelRow \in Rows

\* mapRowToStation(row, index) is called and returns.
AssembleRow ==
    /\ assembled = NotCalled
    /\ assembled' = mapRowToStation(excelRow, 0)
    /\ UNCHANGED <<page, cell, coerced, sheetHeader, normalizedHeader, resolved, excelRow>>

NextRows == AssembleRow

SpecRows == InitRows /\ [][NextRows]_vars

\* handleImport executed twice in sequence on one input.  Session 1 uses the
\* page as in Spec; once a run of it has ended, session 2 may select the
\* file of that run and import it, and from then on session 1 rests, so
\* that the second run starts on the table the first one left.
NextTwice ==
    \/ /\ file[2] = NoFile
       /\ Next
    \/ /\ file[2] = NoFile
       /\ pc[1] \in {"Done", "Failed"}
       /\ handleFileChange(2, file[1])
       /\ UNCHANGED previewing
    \/ \E r \in Sessions \ Operators :
        \/ StartImport(r)
        \/ ReadFile(r)
        \/ Validate(r)
        \/ Deactivate(r)
        \/ UpsertBatch(r)
        \/ UpsertOne(r)

SpecTwice == Init /\ [][NextTwice]_vars

\* Spec with the scheduling the runtime gives a started run: the FileReader
\* loads the file, the loop over the rows runs, and every store call
\* returns.  What the operator does (select, import, reset) is not forced.
Fairness ==
    \A r \in Operators :
        /\ WF_vars(ReadFile(r))
        /\ WF_vars(Validate(r))
        /\ WF_vars(Deactivate(r))
        /\ WF_vars(UpsertBatch(r))
        /\ WF_vars(UpsertOne(r))

FairSpec == Spec /\ Fairness

\* The files of the two sessions that import at once.
ConcurrentFiles == SeqsUpTo(RowPool, MaxConcurrentRows)

\* Two sessions (two browsers) on the page at once, against the one table.
\* Each store call is one step; the steps of the two runs come in any
\* order.  Each session imports once: no reset.
NextConcurrent ==
    \E r \in Sessions :
        \/ \E f \in ConcurrentFiles : handleFileChange(r, f) /\ UNCHANGED previewing
        \/ StartImport(r)
        \/ ReadFile(r)
        \/ Validate(r)
        \/ Deactivate(r)
        \/ UpsertBatch(r)
        \/ UpsertOne(r)

SpecConcurrent == Init /\ [][NextConcurrent]_vars

\* The spreadsheets of the page with its preview: the empty one and those
\* of one row.
PreviewFiles == {<<>>} \cup {<<sheetRow>> : sheetRow \in RowPool}

\* The page with its preview, one operator.  The import button is rendered
\* under a preview that is not empty.
NextPreview ==
    \E r \in Operators :
        \/ \E f \in PreviewFiles : handleFileChange(r, f) /\ ReadForPreview(r, f)
        \/ \E f \in PreviewFiles : PreviewLoaded(r, f)
        \/ preview[r] # <<>> /\ StartImport(r)
        \/ ReadFile(r)
        \/ Validate(r)
        \/ Deactivate(r)
        \/ UpsertBatch(r)
        \/ UpsertOne(r)
        \/ reset(r)

SpecPreview == Init /\ [][NextPreview]_vars

\* The report of a run that ended in the catch block with this message.
FatalResult(message) ==
    [success |-> FALSE, imported |-> 0, errors |-> <<ErrorEntry(0, <<>>, message)>>]

\* The 0-based indices of the rows of rs that mapRowToStation rejects (want
\* = TRUE) or accepts (want = FALSE), in increasing order.
RECURSIVE RowIndices(_, _, _)
RowIndices(rs, index, want) ==
    IF index >= Len(rs) THEN <<>>
    ELSE (IF (mapRowToStation(rs[index + 1], index) = null) = want THEN <<index>> ELSE <<>>)
         \o RowIndices(rs, index + 1, want)

RejectedIndices(rs) == RowIndices(rs, 0, TRUE)

AcceptedIndices(rs) == RowIndices(rs, 0, FALSE)

IsUpsert(call) == call.op \in {"upsertBatch", "upsertOne"}

IsActive(entity) == entity["is_active"] = Bool(TRUE)

\* C1: a run all of whose rows are rejected goes no further than the
\* validation, ends Failed with the single message "No valid stations found
\* in Excel file", has made no store call, and leaves the table as it was
\* when the run began.
C1_AllRejectedNoStoreCall ==
    \A r \in Sessions :
        (pc[r] \notin {"Idle", "Reading"} /\ rows[r] # <<>> /\ AcceptedIndices(rows[r]) = <<>>)
        => /\ pc[r] \in {"Validating", "Failed"}
           /\ ops[r] = <<>>
           /\ store = before[r]
           /\ pc[r] = "Failed" => result[r] = FatalResult("No valid stations found in Excel file")

\* A run over rejected rows only has failed while the table holds stations.
C1_Witness ==
    \E r \in Sessions :
        /\ pc[r] = "Failed"
        /\ rows[r] # <<>>
        /\ AcceptedIndices(rows[r]) = <<>>
        /\ store # <<>>
        /\ \E k \in DOMAIN store : IsActive(store[k])

\* C2: a run over a file of zero rows ends Failed with the single message
\* "Excel file is empty", success = false and imported = 0, has made no
\* store call, and leaves the table as it was; it never ends Done.
C2_EmptyFileIsFatal ==
    \A r \in Sessions :
        (pc[r] \notin {"Idle", "Reading"} /\ file[r] = <<>>)
        => /\ pc[r] = "Failed"
           /\ result[r] = FatalResult("Excel file is empty")
           /\ ops[r] = <<>>
           /\ store = before[r]

\* A run over an empty file has failed while the table holds stations.
C2_Witness ==
    \E r \in Sessions :
        /\ pc[r] = "Failed"
        /\ file[r] = <<>>
        /\ rows[r] = <<>>
        /\ store # <<>>

\* C3: every upsert of a run comes after that run's deactivation has
\* returned without error (it is the first store call, made once); when the
\* deactivation returns an error it is the run's only store call and the
\* run is Failed.
C3_NoUpsertBeforeDeactivation ==
    \A r \in Sessions :
        /\ \A n \in DOMAIN ops[r] :
            /\ IsUpsert(ops[r][n]) => (n > 1 /\ ops[r][1].op = "deactivate" /\ ops[r][1].ok)
            /\ ops[r][n].op = "deactivate" => n = 1
        /\ (ops[r] # <<>> /\ ~ops[r][1].ok)
           => /\ Len(ops[r]) = 1
              /\ pc[r] = "Failed"
              /\ result[r] = FatalResult("Failed to deactivate stations")

\* The deactivation has returned an error in a run with valid stations.
C3_Witness ==
    \E r \in Sessions :
        /\ pc[r] = "Failed"
        /\ stations[r] # <<>>
        /\ Len(ops[r]) = 1
        /\ ops[r][1].op = "deactivate"
        /\ ~ops[r][1].ok

\* The station_no of the record at 0-based index c of a run's stations.
KeyOf(r, c) == stations[r][c + 1]["station_no"].s

\* The 0-based indices of a run's stations.
Candidates(r) == 0..(Len(stations[r]) - 1)

\* The first index of the batch that holds index c.
BatchStart(c) == c - (c % BATCH_SIZE)

\* The positions in ops of the calls op made for the records from index c on.
CallsAt(r, op, c) == {n \in DOMAIN ops[r] : ops[r][n].op = op /\ ops[r][n].from = c}

\* The record at index c was written: its batch's upsert, or its own, has
\* returned without error.
Written(r, c) ==
    \/ \E n \in CallsAt(r, "upsertBatch", BatchStart(c)) : ops[r][n].ok
    \/ \E n \in CallsAt(r, "upsertOne", c) : ops[r][n].ok

\* The record at index c is the last one written with its station_no.
LastWritten(r, c) ==
    /\ Written(r, c)
    /\ \A d \in Candidates(r) : (d > c /\ KeyOf(r, d) = KeyOf(r, c)) => ~Written(r, d)

\* The entity stored under the key of the record at index c is active and
\* has that record's value in every column the record has.
Carries(r, c) ==
    /\ KeyOf(r, c) \in DOMAIN store
    /\ IsActive(store[KeyOf(r, c)])
    /\ \A col \in DOMAIN stations[r][c + 1] : store[KeyOf(r, c)][col] = stations[r][c + 1][col]

\* The entries of errors that come from a failed upsert of one record.
UpsertErrors(r) == SelectSeq(errors[r], LAMBDA entry : entry.msg = "upsert error")

\* C4: in a run that is Done, each batch got one bulk upsert of all its
\* records; when that returned an error every record of the batch got
\* exactly one upsert of its own, and when it did not, none; imported counts
\* exactly the records written, and a record written by its own upsert is
\* in the table although a record of the same batch failed.
C4_FailedBatchRetriedPerRecord ==
    \A r \in Sessions :
        pc[r] = "Done" =>
            /\ \A c \in Candidates(r) :
                LET b == BatchStart(c)
                    size == IF b + BATCH_SIZE < Len(stations[r]) THEN BATCH_SIZE ELSE Len(stations[r]) - b
                IN  /\ Cardinality(CallsAt(r, "upsertBatch", b)) = 1
                    /\ \A n \in CallsAt(r, "upsertBatch", b) :
                        /\ ops[r][n].n = size
                        /\ Cardinality(CallsAt(r, "upsertOne", c)) = IF ops[r][n].ok THEN 0 ELSE 1
                    /\ LastWritten(r, c) => Carries(r, c)
            /\ \A n \in DOMAIN ops[r] :
                IsUpsert(ops[r][n]) => ops[r][n].from \in Candidates(r)
            /\ imported[r] = Cardinality({c \in Candidates(r) : Written(r, c)})
            /\ result[r].imported = imported[r]

\* A batch has failed, one of its records was then written by its own upsert
\* and another one was refused.
C4_Witness ==
    \E r \in Sessions :
        /\ pc[r] = "Done"
        /\ \E c, d \in Candidates(r) :
            /\ c < d
            /\ BatchStart(c) = BatchStart(d)
            /\ ~Written(r, c)
            /\ Written(r, d)
            /\ Carries(r, d)
        /\ imported[r] >= 1

\* The store refuses exactly the records whose station_no is in B: every
\* bulk upsert of the run failed iff its batch holds such a record, every
\* upsert of one record failed iff it is such a record.
Refuses(r, B) ==
    \A n \in DOMAIN ops[r] :
        IsUpsert(ops[r][n]) =>
            (ops[r][n].ok <=>
                \A c \in ops[r][n].from..(ops[r][n].from + ops[r][n].n - 1) : KeyOf(r, c) \notin B)

\* The indices of a run's stations whose station_no is in B, in increasing order.
RECURSIVE RefusedFrom(_, _, _)
RefusedFrom(r, B, c) ==
    IF c >= Len(stations[r]) THEN <<>>
    ELSE (IF KeyOf(r, c) \in B THEN <<c>> ELSE <<>>) \o RefusedFrom(r, B, c + 1)

\* C5: against a store that refuses exactly the records whose station_no is
\* in B, a run that is Done over n stations, k of them with a station_no in
\* B, reports imported = n - k and exactly k upsert errors, which name the
\* station_no of the refused records, in order.
C5_ImportedIsAcceptedCount ==
    \A r \in Sessions :
        \A B \in SUBSET {KeyOf(r, c) : c \in Candidates(r)} :
            (pc[r] = "Done" /\ Refuses(r, B)) =>
                LET refused == RefusedFrom(r, B, 0)
                IN  /\ result[r].imported = Len(stations[r]) - Len(refused)
                    /\ Len(UpsertErrors(r)) = Len(refused)
                    /\ \A k \in DOMAIN refused : UpsertErrors(r)[k].key = KeyOf(r, refused[k])
                    /\ SubSeq(result[r].errors, Len(result[r].errors) - Len(refused) + 1,
                              Len(result[r].errors)) = UpsertErrors(r)

\* A run over three stations in two batches is Done against a store that
\* refuses one station_no, held by one record, and accepts another.
C5_Witness ==
    \E r \in Sessions :
        /\ pc[r] = "Done"
        /\ Len(stations[r]) = 3
        /\ \E B \in SUBSET {KeyOf(r, c) : c \in Candidates(r)} :
            /\ Refuses(r, B)
            /\ Len(RefusedFrom(r, B, 0)) = 1
        /\ result[r].imported = 2
        /\ Len(UpsertErrors(r)) = 1

\* The upserts of one record that have returned an error, in call order.
FailedUpserts(r) == SelectSeq(ops[r], LAMBDA call : call.op = "upsertOne" /\ ~call.ok)

\* C6: the entry recorded when the upsert of one record fails carries that
\* record's row in the spreadsheet: the 0-based index, among the parsed
\* rows, of the row the record was made from, plus 2.
C6_UpsertErrorCarriesSourceRow ==
    \A r \in Sessions :
        \A k \in DOMAIN UpsertErrors(r) :
            UpsertErrors(r)[k].row = AcceptedIndices(rows[r])[FailedUpserts(r)[k].from + 1] + 2

\* The columns of an entity other than the two the deactivation sets.
Data(entity) == [col \in DOMAIN entity \ {"is_active", "updated_at"} |-> entity[col]]

\* C7: in a run that is Done and whose store calls all succeeded, the
\* stations are the accepted rows in order, imported is their number, and
\* the errors are one "Missing or invalid station_no" entry for each
\* rejected row, in row order, each with the row's 0-based index + 2.
C7_RejectedRowsReportedRunContinues ==
    \A r \in Sessions :
        (pc[r] = "Done" /\ \A n \in DOMAIN ops[r] : ops[r][n].ok) =>
            LET rejected == RejectedIndices(rows[r])
                accepted == AcceptedIndices(rows[r])
            IN  /\ Len(stations[r]) = Len(accepted)
                /\ \A c \in DOMAIN accepted :
                    stations[r][c] = mapRowToStation(rows[r][accepted[c] + 1], accepted[c])
                /\ result[r].imported = Len(rows[r]) - Len(rejected)
                /\ Len(result[r].errors) = Len(rejected)
                /\ \A k \in DOMAIN rejected :
                    result[r].errors[k] = ErrorEntry(rejected[k] + 2, <<>>, "Missing or invalid station_no")
                /\ result[r].success = (rejected = <<>>)

\* Three rows, the second one rejected: imported = 2 and one error, for row 3.
C7_Witness ==
    \E r \in Sessions :
        /\ pc[r] = "Done"
        /\ \A n \in DOMAIN ops[r] : ops[r][n].ok
        /\ Len(rows[r]) = 3
        /\ RejectedIndices(rows[r]) = <<1>>
        /\ result[r].imported = 2
        /\ Len(result[r].errors) = 1
        /\ result[r].errors[1].row = 3
        /\ ~result[r].success

\* C8: when a run is Done, every station the table held before is still in
\* it; a station whose station_no no record of the run was written with is
\* inactive, with its other columns as before; a station whose station_no a
\* record was written with is active and carries every column of the last
\* such record.
C8_ReplaceSnapshot ==
    \A r \in Sessions :
        pc[r] = "Done" =>
            /\ DOMAIN before[r] \subseteq DOMAIN store
            /\ \A key \in DOMAIN store :
                IF \E c \in Candidates(r) : KeyOf(r, c) = key /\ Written(r, c)
                THEN \A c \in Candidates(r) : (KeyOf(r, c) = key /\ LastWritten(r, c)) => Carries(r, c)
                ELSE /\ ~IsActive(store[key])
                     /\ key \in DOMAIN before[r]
                     /\ Data(store[key]) = Data(before[r][key])

\* A run is Done over a table that held an active station the run did not
\* bring (now inactive) and an inactive one it did bring (now active, with
\* the run's address).
C8_Witness ==
    \E r \in Sessions :
        /\ pc[r] = "Done"
        /\ \E key \in DOMAIN before[r] :
            /\ IsActive(before[r][key])
            /\ \A c \in Candidates(r) : KeyOf(r, c) # key
            /\ ~IsActive(store[key])
        /\ \E c \in Candidates(r) :
            /\ LastWritten(r, c)
            /\ KeyOf(r, c) \in DOMAIN before[r]
            /\ ~IsActive(before[r][KeyOf(r, c)])
            /\ "address" \in DOMAIN before[r][KeyOf(r, c)] \cap DOMAIN stations[r][c + 1]
            /\ before[r][KeyOf(r, c)]["address"] # stations[r][c + 1]["address"]
            /\ Carries(r, c)

\* C9: no step of any run removes a station_no from the table.
C9_NeverHardDeletes == [][DOMAIN store \subseteq DOMAIN store']_vars

\* A run is Done that did not bring a station the table held: the station
\* is still stored, inactive.
C9_Witness ==
    \E r \in Sessions :
        /\ pc[r] = "Done"
        /\ \E key \in DOMAIN before[r] :
            /\ \A c \in Candidates(r) : KeyOf(r, c) # key
            /\ key \in DOMAIN store
            /\ IsActive(before[r][key])
            /\ ~IsActive(store[key])

\* C10: a run deactivates with one store call, and once that call has
\* returned without error and no upsert has been made yet, the table holds
\* the stations it held before, every one of them inactive and otherwise
\* as before.
C10_DeactivationReachesEveryStation ==
    \A r \in Sessions :
        /\ Cardinality({n \in DOMAIN ops[r] : ops[r][n].op = "deactivate"}) <= 1
        /\ (Len(ops[r]) = 1 /\ ops[r][1].op = "deactivate" /\ ops[r][1].ok) =>
            /\ DOMAIN store = DOMAIN before[r]
            /\ \A key \in DOMAIN store :
                /\ ~IsActive(store[key])
                /\ Data(store[key]) = Data(before[r][key])

\* The deactivation has succeeded, no upsert has been made, and the table
\* holds two stations that were active, one of them not in the run's file.
C10_Witness ==
    \E r \in Sessions :
        /\ pc[r] = "Upserting"
        /\ Len(ops[r]) = 1
        /\ ops[r][1].ok
        /\ Cardinality(DOMAIN store) >= 2
        /\ \A key \in DOMAIN store : IsActive(before[r][key])
        /\ \E key \in DOMAIN store : \A c \in Candidates(r) : KeyOf(r, c) # key

\* The number of a run's records that were written.
WrittenCount(r) == Cardinality({c \in Candidates(r) : Written(r, c)})

\* C11 as stated: a run is reported successful only if its error list is
\* empty, and a run that is Done with a non-empty error list has written at
\* least one record (imported >= 1).
C11_DoneWithErrorsWroteARecord ==
    \A r \in Sessions :
        /\ (result[r] # NoResult /\ result[r].success) => result[r].errors = <<>>
        /\ (pc[r] = "Done" /\ result[r].errors # <<>>) => result[r].imported >= 1

\* C11: a run is reported successful exactly when its error list is empty,
\* and only a run that is Done is; a run that is Done with a non-empty error
\* list reports the number of records written, which is 0 when every upsert
\* of the run returned an error and at least 1 otherwise.
C11_SuccessIffNoErrors ==
    \A r \in Sessions :
        /\ result[r] # NoResult =>
            /\ result[r].success <=> (result[r].errors = <<>>)
            /\ result[r].success => pc[r] = "Done"
        /\ (pc[r] = "Done" /\ result[r].errors # <<>>) =>
            /\ ~result[r].success
            /\ result[r].imported = WrittenCount(r)
            /\ result[r].imported = 0 <=>
                \A n \in DOMAIN ops[r] : IsUpsert(ops[r][n]) => ~ops[r][n].ok

\* A run is Done after a successful deactivation, every upsert having
\* failed: errors are reported and imported = 0.
C11_Witness ==
    \E r \in Sessions :
        /\ pc[r] = "Done"
        /\ ~result[r].success
        /\ result[r].errors # <<>>
        /\ result[r].imported = 0
        /\ ops[r][1].ok
        /\ Len(stations[r]) >= 2

\* C12: when a run is Done and two of its records with one station_no were
\* both written, the later one being the last record written with that
\* station_no, the stored station has the later record's value in every
\* column that record has, whether the two were in one batch or in two.
C12_LaterRecordWins ==
    \A r \in Sessions :
        pc[r] = "Done" =>
            \A c, d \in Candidates(r) :
                (c < d /\ KeyOf(r, c) = KeyOf(r, d) /\ Written(r, c) /\ LastWritten(r, d))
                => /\ KeyOf(r, d) \in DOMAIN store
                   /\ \A col \in DOMAIN stations[r][d + 1] :
                        store[KeyOf(r, d)][col] = stations[r][d + 1][col]

\* Two records with one station_no and different addresses were written by
\* the bulk upserts of two batches; the table has the later one's address.
C12_Witness ==
    \E r \in Sessions :
        /\ pc[r] = "Done"
        /\ \E c, d \in Candidates(r) :
            /\ c < d
            /\ BatchStart(c) # BatchStart(d)
            /\ KeyOf(r, c) = KeyOf(r, d)
            /\ Written(r, c)
            /\ Written(r, d)
            /\ stations[r][c + 1]["address"] # stations[r][d + 1]["address"]
            /\ stations[r][c + 1]["luk_cafe"] # stations[r][d + 1]["luk_cafe"]
            /\ store[KeyOf(r, d)]["address"] = stations[r][d + 1]["address"]
            /\ store[KeyOf(r, d)]["luk_cafe"] = stations[r][d + 1]["luk_cafe"]

\* The same with the two records in one batch, written by its bulk upsert.
C12_WitnessOneBatch ==
    \E r \in Sessions :
        /\ pc[r] = "Done"
        /\ \E c, d \in Candidates(r) :
            /\ c < d
            /\ BatchStart(c) = BatchStart(d)
            /\ KeyOf(r, c) = KeyOf(r, d)
            /\ \E n \in CallsAt(r, "upsertBatch", BatchStart(c)) : ops[r][n].ok
            /\ stations[r][c + 1]["address"] # stations[r][d + 1]["address"]
            /\ store[KeyOf(r, d)]["address"] = stations[r][d + 1]["address"]

\* What the claim compares of a table: the station_no stored, and of each
\* station the active flag and every column but the timestamp.
Entities(table) ==
    [key \in DOMAIN table |->
        [col \in DOMAIN table[key] \ {"updated_at"} |-> table[key][col]]]

\* C13: when handleImport has run twice in sequence on one file and the
\* store answered the calls of the second run as it answered those of the
\* first, the table after the second run holds the stations it held after
\* the first, each with the same active flag and the same columns but for
\* the timestamp, and both runs report the same imported count.
C13_SecondRunChangesNothing ==
    (/\ pc[1] \in {"Done", "Failed"}
     /\ pc[2] \in {"Done", "Failed"}
     /\ rows[2] = rows[1]
     /\ ops[2] = ops[1])
    => /\ Entities(store) = Entities(before[2])
       /\ result[2].imported = result[1].imported
       /\ result[2] = result[1]

\* Both runs are Done over two records, the table held a station before the
\* first run that the file does not bring, and in each run one record was
\* written and another was refused.
C13_Witness ==
    /\ pc[1] = "Done"
    /\ pc[2] = "Done"
    /\ rows[2] = rows[1]
    /\ ops[2] = ops[1]
    /\ Len(stations[2]) >= 2
    /\ result[2].imported >= 1
    /\ UpsertErrors(2) # <<>>
    /\ \E key \in DOMAIN before[1] : \A c \in Candidates(1) : KeyOf(1, c) # key
    /\ \E key \in DOMAIN store : IsActive(store[key])

\* The message of the fatal outcome a run that is Failed ended with.
FatalMessage(r) ==
    IF rows[r] = <<>> THEN "Excel file is empty"
    ELSE IF stations[r] = <<>> THEN "No valid stations found in Excel file"
    ELSE "Failed to deactivate stations"

\* C14: a run that is Failed reports success = false, imported = 0 and one
\* error entry, the message of its fatal outcome (empty file, no valid
\* station, failed deactivation); the entries for rejected rows collected
\* before are not in the report, and no record was written.
C14_FatalReportIsOneMessage ==
    \A r \in Sessions :
        pc[r] = "Failed" =>
            /\ ~result[r].success
            /\ result[r].imported = 0
            /\ Len(result[r].errors) = 1
            /\ result[r].errors[1] = ErrorEntry(0, <<>>, FatalMessage(r))
            /\ \A k \in DOMAIN errors[r] : errors[r][k] # result[r].errors[1]
            /\ Len(errors[r]) = Len(RejectedIndices(rows[r]))
            /\ \A n \in DOMAIN ops[r] : ~ops[r][n].ok
            /\ (stations[r] # <<>>) => (Len(ops[r]) = 1 /\ ops[r][1].op = "deactivate")

\* The deactivation has failed in a run that had collected the entry of a
\* rejected row: the report holds the one message only.
C14_Witness ==
    \E r \in Sessions :
        /\ pc[r] = "Failed"
        /\ stations[r] # <<>>
        /\ errors[r] # <<>>
        /\ errors[r][1].msg = "Missing or invalid station_no"
        /\ result[r] = FatalResult("Failed to deactivate stations")

\* The stages a run may go to from a stage in one step (Idle: no run).
StageSuccessors(stage) ==
    CASE stage = "Idle" -> {"Reading"}
      [] stage = "Reading" -> {"Validating", "Failed"}
      [] stage = "Validating" -> {"Deactivating", "Failed"}
      [] stage = "Deactivating" -> {"Upserting", "Failed"}
      [] stage = "Upserting" -> {"Done"}
      [] stage = "Done" -> {"Idle"}
      [] stage = "Failed" -> {"Idle"}

\* The run's deactivation has returned without error.
Deactivated(r) == ops[r] # <<>> /\ ops[r][1].op = "deactivate" /\ ops[r][1].ok

\* C15: a run changes stage only along Reading, Validating, Deactivating,
\* Upserting, Done; it becomes Failed only from Reading, Validating or
\* Deactivating; and once its deactivation has returned without error no
\* step makes it Failed or lowers imported, whatever the upserts return.
C15_StagesInOrder ==
    [][\A r \in Sessions :
        /\ pc'[r] # pc[r] => pc'[r] \in StageSuccessors(pc[r])
        /\ pc'[r] = "Failed" => pc[r] \in {"Reading", "Validating", "Deactivating", "Failed"}
        /\ Deactivated(r) =>
            /\ pc'[r] \in {"Upserting", "Done", "Idle"}
            /\ pc'[r] # "Idle" => imported'[r] >= imported[r]
            /\ pc'[r] = "Done" => result'[r].imported = imported'[r]
      ]_vars

\* A run is Done after a successful deactivation and two batches, with a
\* failed bulk upsert, a failed upsert of one record and a written record.
C15_Witness ==
    \E r \in Sessions :
        /\ pc[r] = "Done"
        /\ Deactivated(r)
        /\ Len(stations[r]) > BATCH_SIZE
        /\ \E n \in DOMAIN ops[r] : ops[r][n].op = "upsertBatch" /\ ~ops[r][n].ok
        /\ \E n \in DOMAIN ops[r] : ops[r][n].op = "upsertOne" /\ ~ops[r][n].ok
        /\ result[r].imported >= 1
        /\ ~result[r].success

\* Every batch of the run got its bulk upsert, and every record of a batch
\* whose bulk upsert failed got an upsert of its own.
AllBatchesAttempted(r) ==
    \A c \in Candidates(r) :
        /\ CallsAt(r, "upsertBatch", BatchStart(c)) # {}
        /\ \A n \in CallsAt(r, "upsertBatch", BatchStart(c)) :
            ~ops[r][n].ok => CallsAt(r, "upsertOne", c) # {}

\* The run has ended: a result is set and importing is cleared.
Ended(r) ==
    /\ pc[r] \in {"Done", "Failed"}
    /\ result[r] # NoResult
    /\ ~importing[r]

\* C16: with the file read completing and every store call returning, a
\* started run ends Done or Failed with a result set and importing cleared,
\* and a run whose deactivation has succeeded ends Done with every batch
\* attempted.
C16_StartedRunEnds ==
    \A r \in Sessions :
        /\ importing[r] ~> Ended(r)
        /\ (importing[r] /\ Deactivated(r)) ~> (Ended(r) /\ pc[r] = "Done" /\ AllBatchesAttempted(r))

\* A run over two batches has ended Done, the bulk upsert of the first
\* batch having failed and its records having been retried.
C16_Witness ==
    \E r \in Sessions :
        /\ Ended(r)
        /\ pc[r] = "Done"
        /\ Len(stations[r]) > BATCH_SIZE
        /\ AllBatchesAttempted(r)
        /\ \E n \in CallsAt(r, "upsertBatch", 0) : ~ops[r][n].ok
        /\ Len(ops[r]) >= 5

\* C17: a session can start a run whenever its own page lets it (a file is
\* selected, no result is shown, it is not importing), whatever the other
\* session is doing; and a record that a run that is Done counted as
\* written is still stored, and is inactive or without the record's values
\* only if the other session's deactivation succeeded or the other session
\* wrote a record.
C17_RunsAreNotSerialised ==
    \A r \in Sessions :
        /\ (file[r] # NoFile /\ result[r] = NoResult /\ ~importing[r]) => ENABLED StartImport(r)
        /\ pc[r] = "Done" =>
            \A c \in Candidates(r) :
                LastWritten(r, c) =>
                    /\ KeyOf(r, c) \in DOMAIN store
                    /\ ~IsActive(store[KeyOf(r, c)]) => \E q \in Sessions \ {r} : Deactivated(q)
                    /\ ~Carries(r, c) => \E q \in Sessions \ {r} : \E n \in DOMAIN ops[q] : ops[q][n].ok

\* Both runs are Done and report success with imported = 1, both began on
\* the empty table, so the second began before the first wrote its station;
\* the first run's station is stored inactive: the second run's deactivation
\* came after that write.
C17_Witness ==
    \E r \in Sessions :
        \E q \in Sessions \ {r} :
            /\ pc[r] = "Done"
            /\ pc[q] = "Done"
            /\ before[r] = <<>>
            /\ before[q] = <<>>
            /\ result[r].success
            /\ result[q].success
            /\ result[r].imported = 1
            /\ result[q].imported = 1
            /\ LastWritten(r, 0)
            /\ ~IsActive(store[KeyOf(r, 0)])
            /\ IsActive(store[KeyOf(q, 0)])

\* The positions of a text that hold something else than white space.
Ink(s) == {k \in DOMAIN s : s[k] \notin WhiteSpace}

\* A text without the white space before its first and after its last
\* character that is not white space.
Core(s) ==
    IF Ink(s) = {} THEN <<>>
    ELSE SubSeq(s, CHOOSE k \in Ink(s) : \A m \in Ink(s) : k <= m,
                   CHOOSE k \in Ink(s) : \A m \in Ink(s) : k >= m)

\* A character in lower case, the Cyrillic ha read as the Latin x.
Fold(c) == IF LowerChar(c) = "cy_h" THEN "x" ELSE LowerChar(c)

\* The text reads as the token once trimmed, lowercased and with the
\* Cyrillic ha taken for x.
ReadsAs(s, token) ==
    /\ Len(Core(s)) = Len(token)
    /\ \A k \in DOMAIN token : Fold(Core(s)[k]) = token[k]

\* The tokens that mean true: x, the two check marks, da, yes, true, 1.
TrueTokens == {<<"x">>, <<"checkmark">>, <<"heavycheck">>, <<"cy_d", "cy_a">>,
               <<"y", "e", "s">>, <<"t", "r", "u", "e">>, <<"1">>}

\* The cell is a text that reads as one of the tokens, or the number 1.
IsTrueTokenOrOne(value) ==
    \/ value.t = "string" /\ \E token \in TrueTokens : ReadsAs(value.s, token)
    \/ value = Num(1, 0)

\* normalizeValue has been called for a field of the set.
Coerced(fields) == coerced # NotCalled /\ cell.field \in fields

\* C18 as stated: for the boolean field normalizeValue returns true or
\* false, never null; true for a text that reads as one of the tokens and
\* for the number 1, false for every other argument.
C18_TrueOnlyForTokensAndOne ==
    Coerced(BOOLEAN_FIELDS) =>
        /\ coerced \in {Bool(TRUE), Bool(FALSE)}
        /\ coerced = Bool(TRUE) <=> IsTrueTokenOrOne(cell.value)

\* C18: for the boolean field normalizeValue returns true or false, never
\* null; true for a text that reads as one of the tokens, for the number 1
\* and for the boolean true, false for every other argument.
C18_BooleanCoercionIsTotal ==
    Coerced(BOOLEAN_FIELDS) =>
        /\ coerced \in {Bool(TRUE), Bool(FALSE)}
        /\ coerced = Bool(TRUE) <=> (IsTrueTokenOrOne(cell.value) \/ cell.value = Bool(TRUE))

\* The cell of the cafe column holds the Cyrillic capital ha between white
\* space: the coerced value and the assembled record's luk_cafe are true.
C18_Witness ==
    /\ Coerced(BOOLEAN_FIELDS)
    /\ cell.value = Str(<<" ", "CY_H", " ">>)
    /\ coerced = Bool(TRUE)
    /\ assembled # NotCalled
    /\ assembled["luk_cafe"] = Bool(TRUE)

\* The cell is a text that is not empty.
IsText(value) == value.t = "string" /\ value.s # <<>>

\* C19: for a text field (station_no and the phone fields) and a cell that
\* is a text, normalizeValue returns the text without the white space around
\* it, character for character, and the record mapRowToStation assembles
\* has that text under the field; a station number that is white space only
\* leaves no record.
C19_TextCellIsKeptAsText ==
    (cell.field \in TEXT_FIELDS /\ IsText(cell.value)) =>
        /\ coerced # NotCalled => coerced = Str(Core(cell.value.s))
        /\ assembled # NotCalled =>
            IF cell.field = "station_no" /\ Core(cell.value.s) = <<>>
            THEN assembled = null
            ELSE /\ assembled # null
                 /\ assembled[cell.field] = Str(Core(cell.value.s))

\* The station number cell 00123 gives station_no = 00123, zeros kept, as
\* the coerced value and in the assembled record.
C19_Witness ==
    /\ cell = [field |-> "station_no", value |-> Str(<<"0", "0", "1", "2", "3">>)]
    /\ coerced = Str(<<"0", "0", "1", "2", "3">>)
    /\ assembled # NotCalled
    /\ assembled # null
    /\ assembled["station_no"] = Str(<<"0", "0", "1", "2", "3">>)

\* The text of the station number cell of a row (its first cell in every
\* row of the pool).
StationNoCell(row) == row[1][2].s

\* On the page: every record of a run has as station_no the text of its
\* row's station number cell without the white space around it, and a
\* written record is in the table under that text and with it.
C19_StoredKeyIsCellText ==
    \A r \in Sessions :
        \A c \in Candidates(r) :
            LET text == Core(StationNoCell(rows[r][AcceptedIndices(rows[r])[c + 1] + 1]))
            IN  /\ stations[r][c + 1]["station_no"] = Str(text)
                /\ (pc[r] = "Done" /\ Written(r, c)) =>
                    /\ text \in DOMAIN store
                    /\ store[text]["station_no"] = Str(text)

\* The text from its first character that is not white space on.
AfterWhiteSpace(s) == IF Ink(s) = {} THEN <<>> ELSE SubSeq(s, CHOOSE k \in Ink(s) : \A m \in Ink(s) : k <= m, Len(s))

\* The text without one leading sign.
AfterSign(s) == IF s # <<>> /\ s[1] \in {"+", "-"} THEN SubSeq(s, 2, Len(s)) ELSE s

\* The text begins with the word.
BeginsWith(s, word) == Len(s) >= Len(word) /\ SubSeq(s, 1, Len(word)) = word

\* The text begins as a number does: white space, then an optional sign,
\* then a digit, a point and a digit, or the word Infinity.
BeginsAsNumber(s) ==
    LET rest == AfterSign(AfterWhiteSpace(s))
    IN  \/ rest # <<>> /\ IsDigit(rest[1])
        \/ Len(rest) >= 2 /\ rest[1] = "." /\ IsDigit(rest[2])
        \/ BeginsWith(rest, <<"I", "n", "f", "i", "n", "i", "t", "y">>)

\* The cell cannot be parsed as a number: a text that does not begin as a
\* number does, a boolean, or the number NaN.
IsNotANumber(value) ==
    \/ IsText(value) /\ ~BeginsAsNumber(value.s)
    \/ value.t = "boolean"
    \/ value = NaN

\* C20: for a numeric field, a cell that cannot be parsed as a number
\* coerces to null, and every other cell that is not empty to a number; the
\* row of a cell that cannot be parsed is assembled all the same, with its
\* station number and without the numeric field.
C20_UnparsableNumberIsNull ==
    (cell.field \in NUMERIC_FIELDS /\ cell.value.t \in {"string", "boolean", "number"}
        /\ cell.value # Str(<<>>)) =>
        /\ coerced # NotCalled =>
            IF IsNotANumber(cell.value)
            THEN coerced = Null
            ELSE coerced.t = "number" /\ coerced # NaN
        /\ (assembled # NotCalled /\ IsNotANumber(cell.value)) =>
            /\ assembled # null
            /\ assembled["station_no"] = Str(<<"0", "0", "1", "2", "3">>)
            /\ cell.field \notin DOMAIN assembled

\* The sales cell holds abc: the coerced value is null and the row is
\* assembled with its station number and without the sales field.
C20_Witness ==
    /\ cell = [field |-> "sales_day_1", value |-> Str(<<"a", "b", "c">>)]
    /\ coerced = Null
    /\ assembled # NotCalled
    /\ assembled # null
    /\ assembled["station_no"] = Str(<<"0", "0", "1", "2", "3">>)
    /\ "sales_day_1" \notin DOMAIN assembled

\* ------------------------------------------------------------ C21

\* A header in normal form: no upper-case letter, no white space at either
\* end, and no white space inside but single spaces.
IsNormalHeader(h) ==
    /\ \A n \in DOMAIN h : LowerChar(h[n]) = h[n]
    /\ \A n \in DOMAIN h : h[n] \in WhiteSpace => h[n] = " " /\ 1 < n /\ n < Len(h)
    /\ \A n \in 1..(Len(h) - 1) : ~(h[n] = " " /\ h[n + 1] = " ")

\* The canonical fields: the values of COLUMN_MAP.
CanonicalFields == {p[2] : p \in COLUMN_MAP}

\* C21: normalizeHeader is idempotent (what it returns is in normal form, a
\* header in normal form is returned as it is, and normalizing what it
\* returned returns the same); the field a header resolves to is the one
\* the table gives for its normalized form, whatever the header's
\* spelling, and no canonical field when the table has no such key; and
\* every key of COLUMN_MAP, met as a header, normalizes to itself and
\* resolves to its own field.
C21_ResolutionByNormalForm ==
    /\ normalizedHeader # NotCalled =>
        /\ IsNormalHeader(normalizedHeader.value)
        /\ IsNormalHeader(sheetHeader) => normalizedHeader.value = sheetHeader
        /\ normalizeHeader(normalizedHeader.value) = normalizedHeader.value
    /\ normalizedHeader # NotCalled /\ resolved # NotCalled =>
        /\ \A p \in COLUMN_MAP : p[1] = normalizedHeader.value => resolved.value = p[2]
        /\ (\A p \in COLUMN_MAP : p[1] # normalizedHeader.value) => resolved.value \notin CanonicalFields
    /\ \A p \in COLUMN_MAP : sheetHeader = p[1] =>
        /\ normalizedHeader # NotCalled => normalizedHeader.value = sheetHeader
        /\ resolved # NotCalled => resolved.value = p[2]

\* A header spelled with capitals and a run of white space has been
\* normalized to a key of the table and resolved to that key's field.
C21_Witness ==
    /\ normalizedHeader # NotCalled
    /\ resolved # NotCalled
    /\ sheetHeader # normalizedHeader.value
    /\ \E n \in 1..(Len(sheetHeader) - 1) : sheetHeader[n] \in WhiteSpace /\ sheetHeader[n + 1] \in WhiteSpace
    /\ <<normalizedHeader.value, "station_no">> \in COLUMN_MAP
    /\ resolved.value = "station_no"

\* ------------------------------------------------------------ C22

\* The record has a station_no that is a string with a character other
\* than white space.
HasKey(station) ==
    /\ "station_no" \in DOMAIN station
    /\ station["station_no"].t = "string"
    /\ Ink(station["station_no"].s) # {}

\* The records a store call carries: indices into the run's stations.
RecordsOf(call) == call.from..(call.from + call.n - 1)

\* C22: every record a bulk or individual upsert carries is one of the
\* run's stations and has a station_no that is a string and not empty once
\* trimmed; the stations hold no other record, each comes from a row with a
\* station number cell of that text, and every key in the table is such a
\* text.
C22_UpsertedRecordsHaveKey ==
    /\ \A r \in Sessions :
        /\ \A n \in DOMAIN ops[r] :
            IsUpsert(ops[r][n]) =>
                \A c \in RecordsOf(ops[r][n]) : c \in Candidates(r) /\ HasKey(stations[r][c + 1])
        /\ \A c \in Candidates(r) :
            /\ HasKey(stations[r][c + 1])
            /\ \E k \in DOMAIN rows[r] : \E col \in DOMAIN rows[r][k] :
                /\ rows[r][k][col][2].t = "string"
                /\ Core(rows[r][k][col][2].s) = stations[r][c + 1]["station_no"].s
    /\ \A key \in DOMAIN store : Ink(key) # {}

\* A run over a spreadsheet with a row whose station number cell is empty
\* is Done after a bulk upsert and an upsert of one record.
C22_Witness ==
    \E r \in Sessions :
        /\ pc[r] = "Done"
        /\ RejectedIndices(rows[r]) # <<>>
        /\ \E n \in DOMAIN ops[r] : ops[r][n].op = "upsertBatch"
        /\ \E n \in DOMAIN ops[r] : ops[r][n].op = "upsertOne"

\* ------------------------------------------------------------ C23

\* The number of records of the slice that begins at index b.
SliceSize(r, b) == IF b + BATCH_SIZE < Len(stations[r]) THEN BATCH_SIZE ELSE Len(stations[r]) - b

\* The store call that follows call a in list order, given a's outcome.
FollowsInListOrder(r, a, b) ==
    CASE a.op = "deactivate" ->
            a.ok /\ b.op = "upsertBatch" /\ b.from = 0
      [] a.op = "upsertBatch" /\ a.ok ->
            b.op = "upsertBatch" /\ b.from = a.from + BATCH_SIZE
      [] a.op = "upsertBatch" /\ ~a.ok ->
            b.op = "upsertOne" /\ b.from = a.from
      [] a.op = "upsertOne" /\ a.from + 1 < BatchStart(a.from) + SliceSize(r, BatchStart(a.from)) ->
            b.op = "upsertOne" /\ b.from = a.from + 1
      [] OTHER ->
            b.op = "upsertBatch" /\ b.from = BatchStart(a.from) + BATCH_SIZE

\* The call leaves nothing to do after it: the last slice written in bulk,
\* or the last record of the last slice retried.
LastInListOrder(r, a) ==
    \/ a.op = "upsertBatch" /\ a.ok /\ a.from + BATCH_SIZE >= Len(stations[r])
    \/ a.op = "upsertOne" /\ a.from = Len(stations[r]) - 1

\* The bulk upserts whose slice holds the record at index c.
SlicesOf(r, c) == {n \in DOMAIN ops[r] : ops[r][n].op = "upsertBatch" /\ c \in RecordsOf(ops[r][n])}

\* C23: the bulk upserts of a run carry consecutive slices of BATCH_SIZE
\* records, the last one what is left; no record is in two slices and, when
\* the run is Done, every record is in one; the store calls are made in
\* list order, the bulk upsert of a slice after the bulk upsert of the
\* slice before it and, when that failed, after the upserts of each of its
\* records in index order; and every step of a run makes at most one store
\* call, which has returned when the step is over, so that no call is made
\* while another one of the run is outstanding.
C23_StoreCallsInListOrder ==
    /\ [](\A r \in Sessions :
            /\ \A n \in DOMAIN ops[r] :
                /\ ops[r][n].op = "upsertBatch" =>
                    /\ ops[r][n].from % BATCH_SIZE = 0
                    /\ ops[r][n].from < Len(stations[r])
                    /\ ops[r][n].n = SliceSize(r, ops[r][n].from)
                /\ ops[r][n].op = "upsertOne" =>
                    /\ ops[r][n].from \in Candidates(r)
                    /\ ops[r][n].n = 1
                /\ n > 1 => FollowsInListOrder(r, ops[r][n - 1], ops[r][n])
            /\ \A c \in Candidates(r) : Cardinality(SlicesOf(r, c)) <= 1
            /\ pc[r] = "Done" =>
                /\ \A c \in Candidates(r) : Cardinality(SlicesOf(r, c)) = 1
                /\ LastInListOrder(r, ops[r][Len(ops[r])]))
    /\ [][\A r \in Sessions :
            \/ ops'[r] = ops[r]
            \/ ops'[r] = <<>>
            \/ /\ Len(ops'[r]) = Len(ops[r]) + 1
               /\ SubSeq(ops'[r], 1, Len(ops[r])) = ops[r]
               /\ ops'[r][Len(ops'[r])].ok \in BOOLEAN
         ]_vars

\* A run over three stations is Done after five store calls: the
\* deactivation, the bulk upsert of the first slice, which failed, the
\* upserts of its two records, and the bulk upsert of the second slice.
C23_Witness ==
    \E r \in Sessions :
        /\ pc[r] = "Done"
        /\ Len(stations[r]) = BATCH_SIZE + 1
        /\ Len(ops[r]) = BATCH_SIZE + 3
        /\ ops[r][2].op = "upsertBatch" /\ ~ops[r][2].ok
        /\ ops[r][3].op = "upsertOne" /\ ops[r][3].from = 0
        /\ ops[r][BATCH_SIZE + 2].op = "upsertOne" /\ ops[r][BATCH_SIZE + 2].from = BATCH_SIZE - 1
        /\ ops[r][BATCH_SIZE + 3].op = "upsertBatch" /\ ops[r][BATCH_SIZE + 3].from = BATCH_SIZE

\* ------------------------------------------------------------ C24

\* mapRowToStation has returned a record.
IsRecord(station) == station # NotCalled /\ station # null

\* The header, white space and case aside, reads as one of the names of the
\* cafe column: lukcafe, luk_cafe, the same in Cyrillic or after "priznak".
NamesLukCafe(h) ==
    LET letters == SelectSeq(toLowerCase(h), LAMBDA c : c \notin WhiteSpace)
        lukcafe == <<"l", "u", "k", "c", "a", "f", "e">>
        priznak == <<"cy_p", "cy_r", "cy_i", "cy_z", "cy_n", "cy_a", "cy_k">>
    IN  letters \in {lukcafe, <<"l", "u", "k", "_", "c", "a", "f", "e">>, priznak \o lukcafe,
                     <<"cy_l", "cy_u", "cy_k", "cy_k", "cy_a", "cy_f", "cy_e">>}

\* C24: every record mapRowToStation returns has is_active true and a
\* luk_cafe that is true or false, also when no column of the row resolves
\* to luk_cafe.
C24_RecordIsActiveWithCafeFlag ==
    IsRecord(assembled) =>
        /\ "is_active" \in DOMAIN assembled
        /\ assembled["is_active"] = Bool(TRUE)
        /\ "luk_cafe" \in DOMAIN assembled
        /\ assembled["luk_cafe"] \in {Bool(TRUE), Bool(FALSE)}
        /\ (\A k \in DOMAIN excelRow : ~NamesLukCafe(excelRow[k][1])) => assembled["luk_cafe"] = Bool(FALSE)

\* A record was returned for a row without a luk_cafe column.
C24_Witness ==
    /\ IsRecord(assembled)
    /\ Len(excelRow) = 3
    /\ \A k \in DOMAIN excelRow : ~NamesLukCafe(excelRow[k][1])
    /\ assembled["luk_cafe"] = Bool(FALSE)

\* A record was returned for a row whose luk_cafe column holds the mark.
C24_WitnessMarked ==
    /\ IsRecord(assembled)
    /\ \E k \in DOMAIN excelRow : NamesLukCafe(excelRow[k][1]) /\ excelRow[k][2] = Str(<<"x">>)
    /\ assembled["luk_cafe"] = Bool(TRUE)

\* ------------------------------------------------------------ C25

\* The two attributes mapRowToStation sets on every record.
SystemAttributes == {"is_active", "updated_at"}

\* C25: a header that resolves to no canonical field adds nothing to the
\* record and does not reject the row: every key of a record
\* mapRowToStation returns is a canonical field (a value of COLUMN_MAP) or
\* one of is_active and updated_at, and a row with a station number is not
\* rejected whatever its other headers are.
C25_RecordKeysAreCanonical ==
    /\ IsRecord(assembled) => DOMAIN assembled \subseteq CanonicalFields \cup SystemAttributes
    /\ (assembled # NotCalled /\ excelRow # <<>> /\ excelRow[1][2] = Str(<<"0", "1">>)) => assembled # null

\* ------------------------------------------------------------ C26

\* The 0-based indices of the parsed rows of a run.
ParsedRows(r) == 0..(Len(rows[r]) - 1)

\* The row at the index has no station number: no column named as the
\* station number column holds a text with a character that is not white
\* space.
LacksKey(r, index) ==
    \A col \in DOMAIN rows[r][index + 1] :
        LET letters == SelectSeq(toLowerCase(rows[r][index + 1][col][1]), LAMBDA c : c \notin WhiteSpace)
        IN  letters \in {<<"s", "t", "a", "t", "i", "o", "n", "n", "o">>,
                         <<"s", "t", "a", "t", "i", "o", "n", "_", "n", "o">>,
                         <<"numero", "cy_a", "cy_z", "cy_s">>}
            => Ink(rows[r][index + 1][col][2].s) = {}

\* C26: in a run that is Done, imported plus the number of error entries is
\* the number of parsed rows, in the result as in the run: the rows without
\* a station number have one validation entry each, the other rows are the
\* stations in order, and each station is either written (counted in
\* imported) or has one upsert error entry, never both.
C26_RowsAreConserved ==
    \A r \in Sessions :
        pc[r] = "Done" =>
            LET lacking == {k \in ParsedRows(r) : LacksKey(r, k)}
                written == {c \in Candidates(r) : Written(r, c)}
                failed == {c \in Candidates(r) : \E n \in CallsAt(r, "upsertOne", c) : ~ops[r][n].ok}
            IN  /\ result[r].imported + Len(result[r].errors) = Len(rows[r])
                /\ imported[r] + Len(errors[r]) = Len(rows[r])
                /\ Len(rows[r]) = Cardinality(lacking) + Len(stations[r])
                /\ Len(errors[r]) = Cardinality(lacking) + Len(UpsertErrors(r))
                /\ Len(UpsertErrors(r)) = Cardinality(failed)
                /\ imported[r] = Cardinality(written)
                /\ written \cap failed = {}
                /\ written \cup failed = Candidates(r)

\* A run over three rows is Done with one row rejected, one written and
\* one refused by the store.
C26_Witness ==
    \E r \in Sessions :
        /\ pc[r] = "Done"
        /\ Len(rows[r]) = 3
        /\ Len(stations[r]) = 2
        /\ result[r].imported = 1
        /\ Len(result[r].errors) = 2
        /\ Len(UpsertErrors(r)) = 1

\* ------------------------------------------------------------ C27

\* The record at index c was refused: its batch's upsert and its own both
\* returned an error.
Refused(r, c) ==
    /\ \E n \in CallsAt(r, "upsertBatch", BatchStart(c)) : ~ops[r][n].ok
    /\ \E n \in CallsAt(r, "upsertOne", c) : ~ops[r][n].ok

\* The entity of that key was active when the run began and is now
\* inactive, its other columns as they were.
LeftDeactivated(r, key) ==
    /\ key \in DOMAIN store
    /\ ~IsActive(store[key])
    /\ Data(store[key]) = Data(before[r][key])

\* C27 as stated: in a run that is Done, the entity under the key of a
\* refused record, if it was active when the run began, is inactive and has
\* its previous field values.
C27_RefusedKeyStaysDeactivated ==
    \A r \in Sessions :
        pc[r] = "Done" =>
            \A c \in Candidates(r) :
                (Refused(r, c) /\ KeyOf(r, c) \in DOMAIN before[r] /\ IsActive(before[r][KeyOf(r, c)]))
                    => LeftDeactivated(r, KeyOf(r, c))

\* C27, amended: the same, unless another record of the run with the same
\* station_no was written; the refused record itself neither reactivates
\* nor alters the entity, and the entity is then as the last written record
\* of that key left it.
C27_RefusedRecordChangesNothing ==
    \A r \in Sessions :
        pc[r] = "Done" =>
            \A c \in Candidates(r) :
                (Refused(r, c) /\ KeyOf(r, c) \in DOMAIN before[r] /\ IsActive(before[r][KeyOf(r, c)]))
                    => IF \E d \in Candidates(r) : KeyOf(r, d) = KeyOf(r, c) /\ Written(r, d)
                       THEN \E d \in Candidates(r) :
                                KeyOf(r, d) = KeyOf(r, c) /\ LastWritten(r, d) /\ Carries(r, d)
                       ELSE LeftDeactivated(r, KeyOf(r, c))

\* A run is Done in which a record was refused whose key was stored and
\* active when the run began, no record of that key was written, and the
\* entity is left deactivated while another record of the run was written.
C27_Witness ==
    \E r \in Sessions :
        /\ pc[r] = "Done"
        /\ \E c \in Candidates(r) :
            /\ Refused(r, c)
            /\ KeyOf(r, c) \in DOMAIN before[r]
            /\ IsActive(before[r][KeyOf(r, c)])
            /\ \A d \in Candidates(r) : KeyOf(r, d) = KeyOf(r, c) => ~Written(r, d)
            /\ LeftDeactivated(r, KeyOf(r, c))
        /\ \E d \in Candidates(r) : Written(r, d)

\* ------------------------------------------------------------ C28

\* C28: once every FileReader of the preview has loaded, the rows in
\* preview are the first rows parsed from the file that is selected, the
\* one handleImport reads.
C28_PreviewIsOfSelectedFile ==
    \A r \in Sessions :
        (reading[r] = {} /\ file[r] # NoFile) => preview[r] = Slice(file[r], 0, PREVIEW_ROWS)

\* ------------------------------------------------------------ C29

\* The letters of a header: lower case, without white space and underscores.
Letters(h) == SelectSeq(toLowerCase(h), LAMBDA c : c \notin WhiteSpace \cup {"_"})

\* The field that is not boolean a header names, for the headers of address,
\* region and sales figure columns (none: another header).
FieldNamed(h) ==
    CASE Letters(h) \in {<<"a", "d", "d", "r", "e", "s", "s">>, <<"cy_a", "cy_d", "cy_r", "cy_e", "cy_s">>,
                         <<"cy_a", "cy_d", "cy_r", "cy_e", "cy_s", "cy_a", "cy_z", "cy_s">>} -> "address"
      [] Letters(h) \in {<<"r", "e", "g", "i", "o", "n">>,
                         <<"cy_r", "cy_e", "cy_g", "cy_i", "cy_o", "cy_n">>} -> "region"
      [] Letters(h) = <<"s", "a", "l", "e", "s", "d", "a", "y", "1">> -> "sales_day_1"
      [] OTHER -> "none"

\* A cell that coerces to null for the field: an empty cell, or a cell of a
\* numeric field whose text does not begin as a number does.
IsNullCell(field, value) ==
    \/ value.s = <<>>
    \/ field = "sales_day_1" /\ ~BeginsAsNumber(value.s)

\* The fields named by columns of the row all of whose cells coerce to null.
NullFields(entries) ==
    {FieldNamed(entries[k][1]) : k \in DOMAIN entries} \ 
    ({"none"} \cup {FieldNamed(entries[k][1]) : 
                        k \in {n \in DOMAIN entries : ~IsNullCell(FieldNamed(entries[n][1]), entries[n][2])}})

\* The 0-based indices of the parsed rows that have a station number, in
\* row order: the rows the stations are made from.
KeyedRows(r) == SelectSeq([k \in 1..Len(rows[r]) |-> k - 1], LAMBDA k : ~LacksKey(r, k))

\* The row the record at index c of the stations was made from.
SourceRow(r, c) == rows[r][KeyedRows(r)[c + 1] + 1]

\* This step of run r made an upsert that returned without error.
UpsertApplied(r) ==
    /\ Len(ops'[r]) = Len(ops[r]) + 1
    /\ IsUpsert(ops'[r][Len(ops'[r])])
    /\ ops'[r][Len(ops'[r])].ok

\* No record of the run's stations has a field whose cells in its row all
\* coerce to null, nor a field that is null.
RecordsLackNullFields(r) ==
    /\ Len(KeyedRows(r)) = Len(stations[r])
    /\ \A c \in Candidates(r) :
        /\ NullFields(SourceRow(r, c)) \cap DOMAIN stations[r][c + 1] = {}
        /\ \A col \in DOMAIN stations[r][c + 1] : stations[r][c + 1][col] # Null

C29_NullCellLeavesFieldAbsent ==
    IsRecord(assembled) =>
        /\ NullFields(excelRow) \cap DOMAIN assembled = {}
        /\ \A col \in DOMAIN assembled : assembled[col] # Null
        /\ \A field \in {"address", "sales_day_1"} :
            field \in DOMAIN assembled =>
                \E k \in DOMAIN excelRow :
                    FieldNamed(excelRow[k][1]) = field /\ ~IsNullCell(field, excelRow[k][2])

\* ------------------------------------------------------------ C30

\* The last of a set of column positions.
LastOf(columns) == CHOOSE k \in columns : \A n \in columns : n <= k

\* The columns of the row that name the field and whose cell does not
\* coerce to null.
ValueColumns(entries, field) ==
    {k \in DOMAIN entries : FieldNamed(entries[k][1]) = field /\ ~IsNullCell(field, entries[k][2])}

\* The columns of the row that name the cafe column.
CafeColumns(entries) == {k \in DOMAIN entries : NamesLukCafe(entries[k][1])}

\* C30: of several columns of a row that resolve to one field, taken in row
\* order, the record has for a field that is not boolean the trimmed text
\* of the last column whose cell does not coerce to null (and no such field
\* when there is none), and for luk_cafe what the cell of the last cafe
\* column reads as, empty included, which reads as false.
C30_LastColumnDecides ==
    IsRecord(assembled) =>
        /\ IF ValueColumns(excelRow, "address") = {}
           THEN "address" \notin DOMAIN assembled
           ELSE /\ "address" \in DOMAIN assembled
                /\ assembled["address"] = Str(Core(excelRow[LastOf(ValueColumns(excelRow, "address"))][2].s))
        /\ IF CafeColumns(excelRow) = {}
           THEN assembled["luk_cafe"] = Bool(FALSE)
           ELSE assembled["luk_cafe"] = Bool(IsTrueTokenOrOne(excelRow[LastOf(CafeColumns(excelRow))][2]))

\* Two cafe columns, the first with the mark and the second empty: the
\* record has luk_cafe false.
C30_Witness ==
    /\ IsRecord(assembled)
    /\ \E k, n \in CafeColumns(excelRow) :
        /\ k < n
        /\ excelRow[k][2] = Str(<<"x">>)
        /\ excelRow[n][2] = Str(<<>>)
    /\ assembled["luk_cafe"] = Bool(FALSE)

\* Two address columns, the first with a text and the second empty: the
\* record has the text of the first.
C30_WitnessKept ==
    /\ IsRecord(assembled)
    /\ \E k, n \in DOMAIN excelRow :
        /\ k < n
        /\ FieldNamed(excelRow[k][1]) = "address" /\ excelRow[k][2] = Str(<<"x">>)
        /\ FieldNamed(excelRow[n][1]) = "address" /\ excelRow[n][2] = Str(<<>>)
    /\ assembled["address"] = Str(<<"x">>)

====
